---- MODULE Spec2Model ----
(***************************************************************************)
(* Model of DKRemindersBot (src/main.py): the reminders and                *)
(* recurring_templates tables, the undo-token store of one user, the       *)
(* delivery worker, the nudge worker and the callbacks that change the     *)
(* store.                                                                  *)
(*                                                                         *)
(* Instants are whole minutes counted from 2025-01-01 00:00 Europe/Madrid   *)
(* (winter time).  WallClock(t) is the date and time isoformat() writes    *)
(* for the instant t; it is t itself in winter time and t + 60 in summer   *)
(* time.  Seconds and microseconds are dropped in the store (every        *)
(* comparison there is between a minute-aligned instant and a clock        *)
(* reading, for which truncation is exact); the clock reading given to     *)
(* parse_date_time_smart says whether seconds have passed (Clock).         *)
(* Calendar arithmetic is done on wall-clock readings.  Spec, RepoSpec,    *)
(* NudgeSpec, ListSpec and DeleteSpec live in a window without a change    *)
(* of UTC offset, FoldSpec in the night summer time ends; RunSpec and      *)
(* SnoozeSpec also start before each change of offset of 2025 and let the  *)
(* clock run to the instants reminders fall due.  OccSpec and ParseSpec    *)
(* call compute_next_occurrence, parse_date_time_smart and                 *)
(* _split_expr_and_text on their own, with arguments on both sides of both *)
(* changes of offset.  The column created_at is left out: no operation of  *)
(* the model reads it.                                                     *)
(*                                                                         *)
(* Every synchronous stretch of a coroutine (from one await to the next)   *)
(* is one action: asyncio runs it without interleaving.                    *)
(***************************************************************************)
EXTENDS Integers, Sequences, FiniteSets, TLC

\* SQL NULL / Python None
NULL == -1

(***************************************************************************)
(* Bounds of the model                                                     *)
(***************************************************************************)
\* rows the reminders table receives in one run (ids 1..MaxRid)
MaxRid == 4
\* recurring templates created in one run (ids 1..MaxTid)
MaxTid == 1
\* deletions with an undo button in one run (tokens 1..MaxToken)
MaxToken == 2
\* undo_callback invocations suspended at the same time
MaxUndoWaiting == 2

(***************************************************************************)
(* Calendar arithmetic (datetime / date / timedelta of the standard        *)
(* library, as used by compute_next_occurrence and snooze_callback)        *)
(***************************************************************************)
EpochYear == 2025
MinutesPerDay == 1440

IsLeap(y) == (y % 4 = 0 /\ y % 100 # 0) \/ y % 400 = 0

DaysInMonth(y, m) ==
    IF m = 2 THEN (IF IsLeap(y) THEN 29 ELSE 28)
    ELSE IF m \in {4, 6, 9, 11} THEN 30 ELSE 31

LeapsBefore(y) == ((y - 1) \div 4) - ((y - 1) \div 100) + ((y - 1) \div 400)

\* days from 2025-01-01 to January 1st of year y
DaysBeforeYear(y) == 365 * (y - EpochYear) + LeapsBefore(y) - LeapsBefore(EpochYear)

RECURSIVE DaysBeforeMonth(_, _)
DaysBeforeMonth(y, m) ==
    IF m = 1 THEN 0 ELSE DaysBeforeMonth(y, m - 1) + DaysInMonth(y, m - 1)

\* datetime(y, m, d, ...) raises ValueError for a day the month does not have
ValidDate(y, m, d) == m \in 1..12 /\ d >= 1 /\ d <= DaysInMonth(y, m)

\* datetime(y, m, d, hh, mm, tzinfo=TZ)
MkInstant(y, m, d, hh, mm) ==
    (DaysBeforeYear(y) + DaysBeforeMonth(y, m) + (d - 1)) * MinutesPerDay + hh * 60 + mm

DayOf(t) == t \div MinutesPerDay
MinuteOfDay(t) == t % MinutesPerDay

YearOf(t) ==
    CHOOSE y \in EpochYear..(EpochYear + 80) :
        DaysBeforeYear(y) <= DayOf(t) /\ DayOf(t) < DaysBeforeYear(y + 1)

MonthOf(t) ==
    LET y == YearOf(t)
        doy == DayOf(t) - DaysBeforeYear(y)
    IN CHOOSE m \in 1..12 :
        DaysBeforeMonth(y, m) <= doy /\ doy < DaysBeforeMonth(y, m) + DaysInMonth(y, m)

\* date.weekday(): Monday = 0; 2025-01-01 is a Wednesday
Weekday(t) == (DayOf(t) + 2) % 7

\* the date of t at hh:mm
AtTime(t, hh, mm) == DayOf(t) * MinutesPerDay + hh * 60 + mm

(***************************************************************************)
(* TZ = ZoneInfo("Europe/Madrid") and the text of a datetime               *)
(***************************************************************************)
\* summer time of 2025: from 30 March 01:00 UTC to 26 October 01:00 UTC
DstStart == MkInstant(2025, 3, 30, 2, 0)
DstEnd == MkInstant(2025, 10, 26, 2, 0)

\* utcoffset() of an instant in TZ, in minutes above the winter offset
SummerShift(t) == IF DstStart <= t /\ t < DstEnd THEN 60 ELSE 0

\* the date and time isoformat() writes for the instant t
WallClock(t) == t + SummerShift(t)

\* datetime(y, m, d, hh, mm, tzinfo=TZ) for the wall-clock reading w: fold = 0,
\* the first of the two instants when the reading occurs twice
FromWallClock(w) == IF DstStart <= w - 60 /\ w - 60 < DstEnd THEN w - 60 ELSE w

\* remind_at <= ? in SQL: both sides are isoformat() texts, compared as text;
\* the date and time come first, and at the same minute the clock reading,
\* which carries seconds, is the greater text
IsoTextLeq(a, b) == WallClock(a) <= WallClock(b)

(***************************************************************************)
(* compute_next_occurrence                                                 *)
(***************************************************************************)
\* payload of a template: the keys the pattern types read
Payload(wd, ds, d, mo) == [weekday |-> wd, days |-> ds, day |-> d, month |-> mo]
EmptyPayload == Payload(NULL, {}, NULL, NULL)

\* a datetime with tzinfo=TZ: its date and time (reading) and its fold; NoDate is None
DateTime(reading, fold) == [reading |-> reading, fold |-> fold]
NoDate == DateTime(NULL, 0)

\* after_dt.astimezone(TZ).fold: 1 in the second pass of the repeated hour
Fold(t) == IF DstEnd <= t /\ t < DstEnd + 60 THEN 1 ELSE 0

\* the instant of a datetime with tzinfo=TZ (what isoformat() stores)
Instant(dt) ==
    IF dt.fold = 1 /\ DstEnd <= dt.reading /\ dt.reading < DstEnd + 60
    THEN dt.reading
    ELSE FromWallClock(dt.reading)

\* candidate < after_dt: a candidate equal to after_dt is let through
Before(candidate, after_dt, same_tz) ==
    IF same_tz THEN candidate.reading < WallClock(after_dt)
    ELSE Instant(candidate) < after_dt

\* candidate <= after_dt, candidate with tzinfo=TZ: when after_dt carries the
\* same tzinfo (a clock reading of get_now) the dates and times are compared
\* and fold is ignored; when it carries the fixed offset of fromisoformat,
\* the instants are compared
NotAfter(candidate, after_dt, same_tz) ==
    IF same_tz THEN candidate.reading <= WallClock(after_dt)
    ELSE Instant(candidate) <= after_dt

RECURSIVE WeeklyMultiScan(_, _, _, _, _, _)
WeeklyMultiScan(days, hh, mm, after_dt, same_tz, delta) ==
    IF delta >= 8 THEN NoDate
    ELSE LET candidate ==
                 DateTime(AtTime(WallClock(after_dt), hh, mm) + delta * MinutesPerDay, 0)
         IN IF Weekday(candidate.reading) \in days /\ ~NotAfter(candidate, after_dt, same_tz)
            THEN candidate
            ELSE WeeklyMultiScan(days, hh, mm, after_dt, same_tz, delta + 1)

\* the monthly scan if a month without the day were clamped to its last day
RECURSIVE MonthlyScanClamped(_, _, _, _, _, _, _, _)
MonthlyScanClamped(year, month, day, hh, mm, after_dt, same_tz, left) ==
    IF left = 0 THEN NoDate
    ELSE LET ny == IF month + 1 > 12 THEN year + 1 ELSE year
             nm == IF month + 1 > 12 THEN 1 ELSE month + 1
             last == IF day > DaysInMonth(year, month) THEN DaysInMonth(year, month) ELSE day
             candidate == DateTime(MkInstant(year, month, last, hh, mm), 0)
         IN IF NotAfter(candidate, after_dt, same_tz)
            THEN MonthlyScanClamped(ny, nm, day, hh, mm, after_dt, same_tz, left - 1)
            ELSE candidate

RECURSIVE MonthlyScan(_, _, _, _, _, _, _, _)
MonthlyScan(year, month, day, hh, mm, after_dt, same_tz, left) ==
    IF left = 0 THEN NoDate
    ELSE LET ny == IF month + 1 > 12 THEN year + 1 ELSE year
             nm == IF month + 1 > 12 THEN 1 ELSE month + 1
             candidate == DateTime(MkInstant(year, month, day, hh, mm), 0)
         IN IF ~ValidDate(year, month, day)
            THEN MonthlyScan(ny, nm, day, hh, mm, after_dt, same_tz, left - 1)
            ELSE IF NotAfter(candidate, after_dt, same_tz)
            THEN MonthlyScan(ny, nm, day, hh, mm, after_dt, same_tz, left - 1)
            ELSE candidate

\* the yearly scan if it gave up after 8 years instead of 12
RECURSIVE YearlyScan8(_, _, _, _, _, _, _, _)
YearlyScan8(year, month, day, hh, mm, after_dt, same_tz, left) ==
    IF left <= 4 THEN NoDate
    ELSE LET candidate == DateTime(MkInstant(year, month, day, hh, mm), 0)
         IN IF ~ValidDate(year, month, day)
            THEN YearlyScan8(year + 1, month, day, hh, mm, after_dt, same_tz, left - 1)
            ELSE IF NotAfter(candidate, after_dt, same_tz)
            THEN YearlyScan8(year + 1, month, day, hh, mm, after_dt, same_tz, left - 1)
            ELSE candidate

RECURSIVE YearlyScan(_, _, _, _, _, _, _, _)
YearlyScan(year, month, day, hh, mm, after_dt, same_tz, left) ==
    IF left = 0 THEN NoDate
    ELSE LET candidate == DateTime(MkInstant(year, month, day, hh, mm), 0)
         IN IF ~ValidDate(year, month, day)
            THEN YearlyScan(year + 1, month, day, hh, mm, after_dt, same_tz, left - 1)
            ELSE IF NotAfter(candidate, after_dt, same_tz)
            THEN YearlyScan(year + 1, month, day, hh, mm, after_dt, same_tz, left - 1)
            ELSE candidate

\* the datetime compute_next_occurrence returns; same_tz: after_dt.tzinfo is TZ
next_candidate(pattern_type, payload, time_hour, time_minute, after_dt, same_tz) ==
    LET local == WallClock(after_dt)
    IN CASE pattern_type = "daily" ->
            LET candidate == DateTime(AtTime(local, time_hour, time_minute), Fold(after_dt))
            IN IF NotAfter(candidate, after_dt, same_tz)
               THEN DateTime(candidate.reading + MinutesPerDay, 0)
               ELSE candidate
      [] pattern_type = "weekly" ->
            LET candidate == DateTime(AtTime(local, time_hour, time_minute), 0)
                delta0 == (payload.weekday - Weekday(local) + 7) % 7
                delta == IF delta0 = 0 /\ NotAfter(candidate, after_dt, same_tz)
                         THEN 7 ELSE delta0
            IN DateTime(candidate.reading + delta * MinutesPerDay, 0)
      [] pattern_type = "weekly_multi" ->
            IF payload.days = {} THEN NoDate
            ELSE WeeklyMultiScan(payload.days, time_hour, time_minute, after_dt, same_tz, 0)
      [] pattern_type = "monthly" ->
            MonthlyScan(YearOf(local + 1), MonthOf(local + 1), payload.day,
                        time_hour, time_minute, after_dt, same_tz, 24)
      [] pattern_type = "yearly" ->
            YearlyScan(YearOf(local), payload.month, payload.day,
                       time_hour, time_minute, after_dt, same_tz, 12)
      [] OTHER -> NoDate

\* the instant of the datetime compute_next_occurrence returns, NULL for None
compute_next_occurrence(pattern_type, payload, time_hour, time_minute, after_dt, same_tz) ==
    LET next_dt == next_candidate(pattern_type, payload, time_hour, time_minute,
                                  after_dt, same_tz)
    IN IF next_dt = NoDate THEN NULL ELSE Instant(next_dt)

(***************************************************************************)
(* parse_date_time_smart.  An expression is the sequence of its            *)
(* whitespace-separated tokens, lower-cased; a token is a word of letters, *)
(* a number of one or two digits, or a pair of numbers "a<sep>b" with a of *)
(* one or two digits and b of bd digits (the shapes the regular            *)
(* expressions of the parsers tell apart).                                 *)
(***************************************************************************)
Word(w) == [k |-> "word", w |-> w, a |-> 0, sep |-> "", b |-> 0, bd |-> 0]
Number(n) == [k |-> "number", w |-> "", a |-> n, sep |-> "", b |-> 0, bd |-> 0]
Pair(a, sep, b, bd) == [k |-> "pair", w |-> "", a |-> a, sep |-> sep, b |-> b, bd |-> bd]

Last(tokens) == tokens[Len(tokens)]
Front(tokens) == SubSeq(tokens, 1, Len(tokens) - 1)
Rest(tokens, n) == SubSeq(tokens, n + 1, Len(tokens))

\* str.strip() of a string, a sequence of characters
RECURSIVE Strip(_)
Strip(s) ==
    IF s = <<>> THEN s
    ELSE IF Head(s) = " " THEN Strip(Tail(s))
    ELSE IF Last(s) = " " THEN Strip(Front(s))
    ELSE s

\* [-<en-dash><em-dash>]
IsDash(c) == c \in {"-", "endash", "emdash"}

\* what _split_expr_and_text returns: (expr, text), or it raises ValueError
NoSplit == [kind |-> "error", expr |-> <<>>, text |-> <<>>]

\* _split_expr_and_text: re.match of ^(.+?)\s*[-<en-dash><em-dash>]\s*(.+)$ on the
\* stripped line.  The lazy group expr takes the fewest characters k >= 1
\* after which come w spaces, a dash and at least one more character
_split_expr_and_text(s) ==
    LET t == Strip(s)
        n == Len(t)
        Spaces(k) == CHOOSE w \in 0..n : /\ \A i \in (k + 1)..(k + w) : t[i] = " "
                                         /\ (k + w + 1 > n \/ t[k + w + 1] # " ")
        Matches(k) == k + Spaces(k) + 1 < n /\ IsDash(t[k + Spaces(k) + 1])
        ks == { k \in 1..n : Matches(k) }
    IN IF ks = {} THEN NoSplit
       ELSE LET k == CHOOSE k \in ks : \A q \in ks : k <= q
                expr == Strip(SubSeq(t, 1, k))
                text == Strip(SubSeq(t, k + Spaces(k) + 2, n))
            IN IF expr = <<>> \/ text = <<>> THEN NoSplit
               ELSE [kind |-> "ok", expr |-> expr, text |-> text]

\* what a parser returns: None, a datetime, or it raises ValueError
None == [kind |-> "none", dt |-> NoDate]
Ok(dt) == [kind |-> "ok", dt |-> dt]
Error == [kind |-> "error", dt |-> NoDate]

\* datetime(y, m, d, hh, mm, tzinfo=TZ): ValueError for a value out of range
MakeDateTime(y, m, d, hh, mm) ==
    IF ValidDate(y, m, d) /\ hh \in 0..23 /\ mm \in 0..59
    THEN Ok(DateTime(MkInstant(y, m, d, hh, mm), 0))
    ELSE Error

\* the clock reading now: the instant of its minute and whether seconds or
\* microseconds have passed since; now.astimezone(TZ) is its date and time
Clock(minute, seconds) == [minute |-> minute, seconds |-> seconds]
Local(now) == WallClock(now.minute)

\* dt < now - timedelta(minutes=1), dt <= now and dt > now for a datetime dt
\* with tzinfo=TZ and whole minutes: dates and times are compared
BeforeNowOrAtIt(dt, now) == dt.reading <= Local(now)
BeforeLastMinute(dt, now) ==
    IF now.seconds THEN dt.reading <= Local(now) - 1 ELSE dt.reading < Local(now) - 1
NotAfterNow(dt, now) == dt.reading <= Local(now)

WEEKDAY_EN ==
    [monday |-> 0, mon |-> 0, tuesday |-> 1, tue |-> 1, tues |-> 1, wednesday |-> 2,
     wed |-> 2, thursday |-> 3, thu |-> 3, thur |-> 3, thurs |-> 3, friday |-> 4,
     fri |-> 4, saturday |-> 5, sat |-> 5, sunday |-> 6, sun |-> 6]

MONTH_EN ==
    [january |-> 1, jan |-> 1, february |-> 2, feb |-> 2, march |-> 3, mar |-> 3,
     april |-> 4, apr |-> 4, may |-> 5, june |-> 6, jun |-> 6, july |-> 7, jul |-> 7,
     august |-> 8, aug |-> 8, september |-> 9, sep |-> 9, sept |-> 9, october |-> 10,
     oct |-> 10, november |-> 11, nov |-> 11, december |-> 12, dec |-> 12]

IsWeekday(t) == t.k = "word" /\ t.w \in DOMAIN WEEKDAY_EN
IsMonth(t) == t.k = "word" /\ t.w \in DOMAIN MONTH_EN

\* TIME_TOKEN_RE and the time patterns of the parsers: \d{1,2}[:.]\d{2}
IsTimeToken(t) == t.k = "pair" /\ t.sep \in {":", "."} /\ t.bd = 2

\* _normalize_on_at_phrase: a leading "on" and every "at" are dropped, and
\* (step 4) HH.MM becomes HH:MM unless it looks like DD.MM
_normalize_on_at_phrase(tokens) ==
    LET no_on == IF Len(tokens) >= 2 /\ tokens[1] = Word("on") THEN Tail(tokens) ELSE tokens
        IsNotAt(t) == t # Word("at")
        no_at == SelectSeq(no_on, IsNotAt)
        FixDot(t) ==
            IF t.k = "pair" /\ t.sep = "." /\ t.bd = 2
            THEN IF t.a \in 1..31 /\ t.b \in 1..12 THEN t
                 ELSE IF t.a \in 0..23 /\ t.b \in 0..59 THEN Pair(t.a, ":", t.b, 2)
                 ELSE t
            ELSE t
    IN [i \in 1..Len(no_at) |-> FixDot(no_at[i])]

\* _extract_time_from_tokens with the defaults 11:00: a last token that is a
\* time in range is taken off; one out of range stays and the default is used
_extract_time_from_tokens(tokens) ==
    IF tokens # <<>> /\ IsTimeToken(Last(tokens))
          /\ Last(tokens).a \in 0..23 /\ Last(tokens).b \in 0..59
    THEN [tokens |-> Front(tokens), hour |-> Last(tokens).a, minute |-> Last(tokens).b]
    ELSE [tokens |-> tokens, hour |-> 11, minute |-> 0]

\* _add_months: the day is cut to the last day of the month
_add_months(reading, months) ==
    LET total == YearOf(reading) * 12 + (MonthOf(reading) - 1) + months
        y == total \div 12
        m == (total % 12) + 1
        dom == DayOf(reading) - DaysBeforeYear(YearOf(reading))
                   - DaysBeforeMonth(YearOf(reading), MonthOf(reading)) + 1
        d == IF dom > DaysInMonth(y, m) THEN DaysInMonth(y, m) ELSE dom
    IN MkInstant(y, m, d, 0, 0) + MinuteOfDay(reading)

_parse_in_expression(tokens, now) ==
    IF Len(tokens) < 3 \/ tokens[1] # Word("in") \/ tokens[2].k # "number"
          \/ tokens[3].k # "word"
    THEN None
    ELSE LET amount == tokens[2].a
             unit == tokens[3].w
             MinuteUnits == {"minute", "minutes", "min", "mins", "m"}
             HourUnits == {"hour", "hours", "h", "hr", "hrs"}
             DayUnits == {"day", "days", "d"}
             WeekUnits == {"week", "weeks", "w"}
             MonthUnits == {"month", "months", "mon"}
             YearUnits == {"year", "years", "yr", "yrs", "y"}
         IN CASE unit \in MinuteUnits -> Ok(DateTime(Local(now) + amount, 0))
              [] unit \in HourUnits -> Ok(DateTime(Local(now) + amount * 60, 0))
              [] unit \in DayUnits -> Ok(DateTime(Local(now) + amount * MinutesPerDay, 0))
              [] unit \in WeekUnits -> Ok(DateTime(Local(now) + amount * 7 * MinutesPerDay, 0))
              [] unit \in MonthUnits -> Ok(DateTime(_add_months(Local(now), amount), Fold(now.minute)))
              [] unit \in YearUnits ->
                    Ok(DateTime(_add_months(Local(now), amount * 12), Fold(now.minute)))
              [] OTHER -> None

\* datetime(base.year, base.month, base.day, hour, minute, tzinfo=TZ) for the
\* date of now moved by days
OnDay(now, days, hour, minute) ==
    DateTime(AtTime(Local(now), hour, minute) + days * MinutesPerDay, 0)

\* today / tomorrow / day after tomorrow, then an optional time
_parse_today_tomorrow(tokens, now) ==
    LET days == IF tokens = <<>> THEN NULL
                ELSE IF tokens[1] = Word("today") THEN 0
                ELSE IF tokens[1] = Word("tomorrow") THEN 1
                ELSE IF Len(tokens) >= 3 /\ tokens[1] = Word("day")
                        /\ tokens[2] = Word("after") /\ tokens[3] = Word("tomorrow") THEN 2
                ELSE NULL
        rest == _extract_time_from_tokens(Rest(tokens, IF days = 2 THEN 3 ELSE 1))
    IN IF days = NULL THEN None ELSE Ok(OnDay(now, days, rest.hour, rest.minute))

NextWords == {"next"}
ThisWords == {"this", "coming"}

_parse_next_expression(tokens, now) ==
    IF tokens = <<>> THEN None
    ELSE
    LET first == tokens[1]
        mode == IF first.k = "word" /\ first.w \in NextWords THEN "next" ELSE "this"
        start_idx == IF first.k = "word" /\ first.w \in NextWords \cup ThisWords
                     THEN 1 ELSE 0
    IN IF start_idx >= Len(tokens) THEN None
       ELSE
       LET second == tokens[start_idx + 1]
           rest == _extract_time_from_tokens(Rest(tokens, start_idx + 1))
           cur_wd == Weekday(Local(now))
       IN CASE second = Word("week") ->
                 LET until_monday == (7 - cur_wd) % 7
                     days == IF mode = "next" /\ until_monday = 0 THEN 7 ELSE until_monday
                 IN Ok(OnDay(now, days, rest.hour, rest.minute))
            [] second = Word("month") /\ mode = "this" ->
                 LET dt == DateTime(AtTime(Local(now), rest.hour, rest.minute),
                                    Fold(now.minute))
                 IN IF NotAfterNow(dt, now)
                    THEN Ok(DateTime(dt.reading + MinutesPerDay, 0))
                    ELSE Ok(dt)
            [] second = Word("month") /\ mode = "next" ->
                 Ok(DateTime(AtTime(_add_months(Local(now), 1), rest.hour, rest.minute), 0))
            [] IsWeekday(second) ->
                 LET delta == (WEEKDAY_EN[second.w] - cur_wd + 7) % 7
                     candidate == OnDay(now, delta, rest.hour, rest.minute)
                     later == DateTime(candidate.reading + 7 * MinutesPerDay, 0)
                 IN IF mode = "next"
                    THEN (IF delta = 0 THEN Ok(later) ELSE Ok(candidate))
                    ELSE (IF NotAfterNow(candidate, now) THEN Ok(later) ELSE Ok(candidate))
            [] OTHER -> None

RECURSIVE WeekendScan(_, _, _, _, _)
WeekendScan(allowed, hour, minute, now, delta) ==
    IF delta >= 8 THEN None
    ELSE LET candidate == OnDay(now, delta, hour, minute)
         IN IF Weekday(candidate.reading) \in allowed /\ ~NotAfterNow(candidate, now)
            THEN Ok(candidate)
            ELSE WeekendScan(allowed, hour, minute, now, delta + 1)

_parse_weekend_weekday(tokens, now) ==
    LET t == _extract_time_from_tokens(tokens)
        is_weekend == \E i \in 1..Len(t.tokens) :
                         t.tokens[i].k = "word" /\ t.tokens[i].w \in {"weekend", "weekends"}
        is_weekday == \E i \in 1..Len(t.tokens) :
                         /\ t.tokens[i].k = "word"
                         /\ t.tokens[i].w \in {"weekday", "weekdays", "workday", "workdays"}
    IN IF t.tokens = <<>> \/ is_weekend = is_weekday THEN None
       ELSE WeekendScan(IF is_weekend THEN {5, 6} ELSE 0..4, t.hour, t.minute, now, 0)

\* _try_parse_time_token of _parse_month_name_date
IsTimeInRange(t) == IsTimeToken(t) /\ t.a \in 0..23 /\ t.b \in 0..59

\* the date (day, month) at hour:minute in the year of now, a year later when
\* the datetime of this year is past: by its date alone in
\* _parse_month_name_date ((month, day) < (local.month, local.day)), by more
\* than a minute in _parse_absolute; ValueError when either datetime does not
\* exist
ThisYearOrNext(day, month, hour, minute, now, by_date) ==
    LET year == YearOf(Local(now))
        dt == MakeDateTime(year, month, day, hour, minute)
        past == IF by_date
                THEN \/ MonthOf(dt.dt.reading) < MonthOf(Local(now))
                     \/ /\ MonthOf(dt.dt.reading) = MonthOf(Local(now))
                        /\ DayOf(dt.dt.reading) < DayOf(Local(now))
                ELSE BeforeLastMinute(dt.dt, now)
    IN IF dt.kind = "ok" /\ past
       THEN MakeDateTime(year + 1, month, day, hour, minute)
       ELSE dt

_parse_month_name_date(expr, now) ==
    LET s == IF Len(expr) >= 2 /\ expr[1] = Word("on") THEN Tail(expr) ELSE expr
        after_at == Len(s) >= 2 /\ s[Len(s) - 1] = Word("at")
        timed == s # <<>> /\ IsTimeInRange(Last(s))
        hour == IF timed THEN Last(s).a ELSE 11
        minute == IF timed THEN Last(s).b ELSE 0
        tokens == IF ~timed THEN s
                  ELSE IF after_at THEN SubSeq(s, 1, Len(s) - 2) ELSE Front(s)
    IN IF Len(tokens) < 2 THEN None
       ELSE IF IsMonth(tokens[1]) /\ tokens[2].k = "number"
       THEN (IF tokens[2].a \notin 1..31 THEN Error
             ELSE ThisYearOrNext(tokens[2].a, MONTH_EN[tokens[1].w], hour, minute, now,
                                 TRUE))
       ELSE IF IsMonth(tokens[2]) /\ tokens[1].k = "number"
       THEN (IF tokens[1].a \notin 1..31 THEN Error
             ELSE ThisYearOrNext(tokens[1].a, MONTH_EN[tokens[2].w], hour, minute, now,
                                 TRUE))
       ELSE None

_parse_absolute(tokens, now) ==
    LET n == Len(tokens)
        Past(dt) == BeforeLastMinute(dt, now)
        timed == n >= 2 /\ IsTimeToken(tokens[n])
        hour == IF timed THEN tokens[n].a ELSE 11
        minute == IF timed THEN tokens[n].b ELSE 0
        \* the tokens before the optional time
        m == IF timed THEN n - 1 ELSE n
    IN IF n = 1 /\ IsTimeInRange(tokens[1])
       THEN \* HH:MM alone
            LET dt == DateTime(AtTime(Local(now), tokens[1].a, tokens[1].b),
                               Fold(now.minute))
            IN IF Past(dt) THEN Ok(DateTime(dt.reading + MinutesPerDay, 0)) ELSE Ok(dt)
       ELSE IF m = 1 /\ tokens[1].k = "pair" /\ tokens[1].sep \in {".", "/"}
       THEN \* DD.MM [HH:MM]
            ThisYearOrNext(tokens[1].a, tokens[1].b, hour, minute, now, FALSE)
       ELSE IF m = 2 /\ tokens[1].k = "number" /\ tokens[2].k = "word"
       THEN \* 25 december [20:30]
            IF IsMonth(tokens[2])
            THEN ThisYearOrNext(tokens[1].a, MONTH_EN[tokens[2].w], hour, minute, now, FALSE)
            ELSE Error
       ELSE IF m = 2 /\ tokens[1].k = "word" /\ tokens[2].k = "number"
       THEN \* december 25 [20:30]
            IF IsMonth(tokens[1])
            THEN ThisYearOrNext(tokens[2].a, MONTH_EN[tokens[1].w], hour, minute, now, FALSE)
            ELSE Error
       ELSE None

\* parse_date_time_smart on the expression part of the line: the first
\* parser that does not return None decides; ValueError when all return None
parse_date_time_smart(expr, now) ==
    LET tokens == _normalize_on_at_phrase(expr)
        r1 == _parse_in_expression(tokens, now)
        r2 == _parse_today_tomorrow(tokens, now)
        r3 == _parse_next_expression(tokens, now)
        r4 == _parse_weekend_weekday(tokens, now)
        r5 == _parse_month_name_date(tokens, now)
        r6 == _parse_absolute(tokens, now)
    IN IF r1 # None THEN r1
       ELSE IF r2 # None THEN r2
       ELSE IF r3 # None THEN r3
       ELSE IF r4 # None THEN r4
       ELSE IF r5 # None THEN r5
       ELSE IF r6 # None THEN r6
       ELSE Error

(***************************************************************************)
(* Inputs of the model                                                     *)
(***************************************************************************)
\* conftest.fixed_now: Friday 2025-11-28 10:00
StartInstant == MkInstant(2025, 11, 28, 10, 0)

\* chat ids; both are private chats (Chat.PRIVATE), so every delivered
\* message carries the snooze keyboard
Chats == {1, 2}
Users == {1000}
Texts == {"a"}

\* the chat a /remind of the model is sent from
CreateChats == {1}

\* recurring expression accepted by parse_recurring: "every day 10:00"
Patterns ==
    { [pattern_type |-> "daily", payload |-> EmptyPayload,
       time_hour |-> 10, time_minute |-> 0] }

\* offset of a one-off reminder: "in 1 day"
OneOffOffsets == {MinutesPerDay}

\* readings of the wall clock: Friday 10:00, Saturday 10:00 and 10:20, Sunday 10:00
ClockReadings ==
    { StartInstant, StartInstant + MinutesPerDay, StartInstant + MinutesPerDay + 20,
      StartInstant + 2 * MinutesPerDay }

NudgeDelay == 20

\* lines of a /remind message: two the parsers accept, two they reject
RemindLinesIn ==
    { "every day 10:00 - a", "in 1 day - a", "every blah - a", "blah - a" }
\* lines in one bulk /remind
MaxBulkLines == 2
\* characters in a line given to _split_expr_and_text
MaxLineLen == 7
BulkInputs == UNION { [1..n -> RemindLinesIn] : n \in 1..MaxBulkLines }

\* the night of 26 October 2025: the wall clock shows 02:00-02:59 twice
FirstPass(hh, mm) == FromWallClock(MkInstant(2025, 10, 26, hh, mm))
SecondPass(hh, mm) == MkInstant(2025, 10, 26, hh, mm)
FoldStart == FirstPass(1, 30)
FoldClock ==
    { FoldStart, FirstPass(2, 20), FirstPass(2, 40),
      SecondPass(2, 10), SecondPass(2, 40), SecondPass(3, 10) }
\* times of day a user asks for in "october 26 at HH:MM"
FoldTimes == { <<2, 15>>, <<2, 30>> }

\* arguments of compute_next_occurrence: times of day, payloads of every
\* pattern type (the last of each kind is one no date satisfies) and instants
\* after_dt, each both as a clock reading and as a stored remind_at
OccCalls ==
    LET OccTimes == { <<0, 0>>, <<2, 30>>, <<10, 0>>, <<23, 59>> }
        OccPayloads ==
            { [pattern_type |-> "daily", payload |-> EmptyPayload] }
            \cup { [pattern_type |-> "weekly", payload |-> Payload(wd, {}, NULL, NULL)] :
                     wd \in {0, 4, 5, 6} }
            \cup { [pattern_type |-> "weekly_multi", payload |-> Payload(NULL, ds, NULL, NULL)] :
                     ds \in { {5, 6}, {0, 3}, {6}, 0..6, {} } }
            \cup { [pattern_type |-> "monthly", payload |-> Payload(NULL, {}, d, NULL)] :
                     d \in {15, 26, 29, 30, 31, 32} }
            \cup { [pattern_type |-> "yearly", payload |-> Payload(NULL, {}, md[2], md[1])] :
                     md \in { <<1, 15>>, <<2, 29>>, <<10, 26>>, <<12, 31>>, <<2, 30>> } }
        OccAfter ==
            { StartInstant,                                     \* Friday, winter time
              MkInstant(2025, 1, 15, 9, 0), MkInstant(2025, 1, 15, 10, 0),
              MkInstant(2025, 1, 31, 10, 0), MkInstant(2025, 2, 28, 23, 59),
              MkInstant(2025, 3, 29, 2, 30),                    \* the day before summer time
              FromWallClock(MkInstant(2025, 3, 30, 3, 10)),     \* after the missing hour
              FromWallClock(MkInstant(2025, 8, 31, 10, 0)),     \* summer time
              FromWallClock(MkInstant(2025, 10, 25, 0, 0)),     \* the day before winter time
              FromWallClock(MkInstant(2025, 10, 25, 10, 0)),
              FirstPass(2, 10), FirstPass(2, 30), SecondPass(2, 10), SecondPass(2, 30),
              MkInstant(2025, 12, 31, 23, 59), MkInstant(2028, 2, 29, 10, 0),
              MkInstant(2096, 3, 1, 10, 0) }
    IN
    { [fn |-> "compute_next_occurrence", pattern_type |-> p.pattern_type,
       payload |-> p.payload, time_hour |-> t[1], time_minute |-> t[2],
       after_dt |-> a, same_tz |-> z] :
         p \in OccPayloads, t \in OccTimes, a \in OccAfter, z \in BOOLEAN }

\* lines given to _split_expr_and_text: every string of at most MaxLineLen
\* characters out of a letter, a space, a hyphen and an en-dash
SplitCalls ==
    { [fn |-> "_split_expr_and_text", s |-> s] :
        s \in UNION { [1..n -> {"a", " ", "-", "endash"}] : n \in 0..MaxLineLen } }

\* expressions given to parse_date_time_smart: every form, with and without a
\* time, with values in and out of range
ExprTimes ==
    { Pair(t[1], ":", t[2], 2) :
        t \in { <<1, 59>>, <<2, 5>>, <<2, 30>>, <<9, 58>>, <<9, 59>>, <<10, 0>>, <<10, 1>>,
                <<23, 59>>, <<24, 0>>, <<25, 0>>, <<10, 60>> } }
OptTime(exprs) == exprs \cup { Append(e, t) : e \in exprs, t \in ExprTimes }
Exprs ==
    LET ExprDates ==
            { <<12, 1>>, <<1, 1>>, <<29, 2>>, <<31, 2>>, <<30, 3>>, <<26, 10>>, <<27, 11>>,
              <<28, 11>>, <<29, 11>>, <<31, 12>>, <<32, 1>>, <<0, 1>>, <<15, 13>> }
        ExprMonthDays ==
            { <<"january", 25>>, <<"feb", 29>>, <<"february", 31>>, <<"october", 26>>,
              <<"november", 27>>, <<"november", 28>>, <<"december", 31>>, <<"january", 32>>,
              <<"january", 0>>, <<"blah", 25>> }
        ExprWeekdays == {"monday", "wednesday", "friday", "sat", "sunday"}
        AbsoluteExprs ==
            OptTime({ <<Pair(d[1], sep, d[2], 2)>> : d \in ExprDates, sep \in {".", "/"} }
                    \cup { <<Pair(1, ".", 1, 1)>> })
        TimeExprs ==
            { <<t>> : t \in ExprTimes } \cup { <<Pair(t.a, ".", t.b, 2)>> : t \in ExprTimes }
                \cup { <<Pair(9, ":", 5, 1)>> }
        NamedDayExprs ==
            OptTime({ <<Word("today")>>, <<Word("tomorrow")>>,
                      <<Word("day"), Word("after"), Word("tomorrow")>> })
        NextExprs ==
            OptTime({ <<Word(p), Word(x)>> :
                        p \in NextWords \cup ThisWords,
                        x \in ExprWeekdays \cup {"week", "month"} }
                    \cup { <<Word(x)>> : x \in ExprWeekdays \cup {"week", "month", "next"} })
        WeekendExprs ==
            OptTime({ <<Word(x)>> : x \in {"weekend", "weekday", "workday"} }
                    \cup { <<Word("next"), Word("weekend")>>,
                           <<Word("weekend"), Word("weekday")>> })
        MonthNameExprs ==
            OptTime({ <<Word(d[1]), Number(d[2])>> : d \in ExprMonthDays }
                    \cup { <<Number(d[2]), Word(d[1])>> : d \in ExprMonthDays })
                \cup { <<Word("on"), Word("january"), Number(25), Word("at"), t>> :
                         t \in ExprTimes }
        InExprs ==
            { <<Word("in"), Number(n), Word(u)>> :
                n \in {0, 1, 2, 45},
                u \in {"minutes", "hours", "days", "weeks", "months", "years", "blah"} }
    IN AbsoluteExprs \cup TimeExprs \cup NamedDayExprs \cup NextExprs \cup WeekendExprs
           \cup MonthNameExprs \cup InExprs \cup { <<Word("blah")>>, <<Number(25)>> }

\* clock readings a line is parsed at: conftest.fixed_now, the end of the
\* year, the day after 29 February, summer time, the repeated hour of 26
\* October (and its first minute) and the hour after the missing hour of 30
\* March; each on the minute and with seconds past it
ParseCalls ==
    LET ParseMinutes ==
            { StartInstant, MkInstant(2025, 12, 31, 23, 59), MkInstant(2028, 3, 1, 10, 0),
              MkInstant(2025, 1, 31, 10, 0), FromWallClock(MkInstant(2025, 8, 31, 10, 0)),
              FirstPass(2, 10), SecondPass(2, 0), SecondPass(2, 10),
              FromWallClock(MkInstant(2025, 3, 30, 3, 10)) }
    IN
    { [fn |-> "parse_date_time_smart", expr |-> e, now |-> Clock(t, z)] :
        e \in Exprs, t \in ParseMinutes, z \in BOOLEAN }

(***************************************************************************)
(* State                                                                   *)
(***************************************************************************)
VARIABLES
    now,            \* the clock
    reminders,      \* table reminders: id -> row
    templates,      \* table recurring_templates: id -> row
    next_rid,       \* AUTOINCREMENT of reminders
    next_tid,       \* AUTOINCREMENT of recurring_templates
    undo_tokens,    \* context.user_data["undo_tokens"]: token -> snapshot
    next_token,     \* tokens handed out so far (make_undo_token is fresh)
    undo_waiting,   \* undo_callback invocations suspended in their first await
    wpc,            \* reminders_worker: "sleep" | "send" | "mark"
    wnow,           \* reminders_worker: now of the cycle
    wdue,           \* reminders_worker: items of the cycle still to process
    npc,            \* reminders_nudge_worker: "sleep" | "send" | "mark"
    nrows,          \* reminders_nudge_worker: rows of the cycle still to process
    ncutoff,        \* reminders_nudge_worker: cutoff of the cycle
    sent,           \* history: ids whose delivery send_message succeeded
    nudged,         \* history: ids whose nudge send_message succeeded
    restored,       \* history: [token, kind] of every restore_deleted_snapshot call
    bulk_reply,     \* the counts in the reply to the last bulk /remind
    call,           \* the arguments of the call of a pure function under check
    result          \* what that call returned

vars == <<now, reminders, templates, next_rid, next_tid, undo_tokens, next_token,
          undo_waiting, wpc, wnow, wdue, npc, nrows, ncutoff, sent, nudged,
          restored, bulk_reply, call, result>>

dbVars == <<reminders, templates, next_rid, next_tid>>
workerVars == <<wpc, wnow, wdue>>
nudgeVars == <<npc, nrows, ncutoff>>
undoVars == <<undo_tokens, next_token, undo_waiting, restored>>
pureVars == <<call, result>>

Rids == DOMAIN reminders
Tids == DOMAIN templates

\* a function without the key k / with the key k bound to v
Without(f, k) == [x \in DOMAIN f \ {k} |-> f[x]]
With(f, k, v) == [x \in DOMAIN f \cup {k} |-> IF x = k THEN v ELSE f[x]]

(***************************************************************************)
(* Repository functions (pure parts: table in, table out)                  *)
(***************************************************************************)
\* add_reminder: INSERT with delivered = 0; acked, nudge_sent default 0, sent_at NULL
NewReminder(rid, chat_id, text, remind_at, created_by, template_id) ==
    [id |-> rid, chat_id |-> chat_id, text |-> text, remind_at |-> remind_at,
     created_by |-> created_by, delivered |-> 0, template_id |-> template_id,
     acked |-> 0, sent_at |-> NULL, nudge_sent |-> 0]

add_reminder(rs, rid, chat_id, text, remind_at, created_by, template_id) ==
    With(rs, rid, NewReminder(rid, chat_id, text, remind_at, created_by, template_id))

\* create_recurring_template: INSERT with active = 1
NewTemplate(tid, chat_id, text, pat, created_by) ==
    [id |-> tid, chat_id |-> chat_id, text |-> text,
     pattern_type |-> pat.pattern_type, payload |-> pat.payload,
     time_hour |-> pat.time_hour, time_minute |-> pat.time_minute,
     created_by |-> created_by, active |-> 1]

create_recurring_template(ts, tid, chat_id, text, pat, created_by) ==
    With(ts, tid, NewTemplate(tid, chat_id, text, pat, created_by))

\* ORDER BY key ASC over a set of [key, row] pairs (ties in rowid order)
RECURSIVE OrderBy(_)
OrderBy(keyed) ==
    IF keyed = {} THEN <<>>
    ELSE LET first == CHOOSE r \in keyed :
                        \A q \in keyed :
                            r.key < q.key \/ (r.key = q.key /\ r.row.id <= q.row.id)
         IN <<first.row>> \o OrderBy(keyed \ {first})

\* ORDER BY remind_at: the order of the texts
ByRemindAt(rows) == OrderBy({ [key |-> WallClock(r.remind_at), row |-> r] : r \in rows })
BySentAt(rows) == OrderBy({ [key |-> r.sent_at, row |-> r] : r \in rows })

\* the dataclass Reminder built by get_due_reminders / get_reminder
AsReminder(r) ==
    [id |-> r.id, chat_id |-> r.chat_id, text |-> r.text, remind_at |-> r.remind_at,
     created_by |-> r.created_by, template_id |-> r.template_id]

\* get_due_reminders: WHERE delivered = 0 AND remind_at <= now ORDER BY remind_at
DueRows(rs, t) ==
    { rs[i] : i \in { j \in DOMAIN rs : rs[j].delivered = 0 /\ IsoTextLeq(rs[j].remind_at, t) } }
get_due_reminders(rs, t) ==
    LET s == ByRemindAt(DueRows(rs, t))
    IN [k \in 1..Len(s) |-> AsReminder(s[k])]

\* get_reminder_row: the columns the snapshot keeps
AsRow(r) ==
    [id |-> r.id, chat_id |-> r.chat_id, text |-> r.text, remind_at |-> r.remind_at,
     delivered |-> r.delivered, created_by |-> r.created_by, template_id |-> r.template_id]

\* get_active_reminders_for_chat: WHERE chat_id = ? AND delivered = 0
\* ORDER BY remind_at (the column created_at, which it also selects, is left
\* out of the model)
get_active_reminders_for_chat(rs, chat_id, created_by) ==
    LET s == ByRemindAt({ rs[i] : i \in { j \in DOMAIN rs :
                            rs[j].chat_id = chat_id /\ rs[j].delivered = 0 } })
    IN [k \in 1..Len(s) |-> AsRow(s[k])]

\* get_active_reminders_created_by_for_chat: WHERE chat_id = ? AND
\* delivered = 0 AND created_by = ? ORDER BY remind_at
get_active_reminders_created_by_for_chat(rs, chat_id, created_by) ==
    LET s == ByRemindAt({ rs[i] : i \in { j \in DOMAIN rs :
                            /\ rs[j].chat_id = chat_id
                            /\ rs[j].delivered = 0
                            /\ rs[j].created_by = created_by } })
    IN [k \in 1..Len(s) |-> AsRow(s[k])]

\* an UPDATE that sets acked and sent_at but not delivered
mark_sent_at_only(rs, rid, sent_at) ==
    [i \in DOMAIN rs |->
        IF i = rid THEN [rs[i] EXCEPT !.acked = 0, !.sent_at = sent_at]
        ELSE rs[i]]

\* mark_reminder_sent: UPDATE SET delivered = 1, acked = 0, sent_at = ? WHERE id = ?
mark_reminder_sent(rs, rid, sent_at) ==
    [i \in DOMAIN rs |->
        IF i = rid THEN [rs[i] EXCEPT !.delivered = 1, !.acked = 0, !.sent_at = sent_at]
        ELSE rs[i]]

\* mark_reminder_acked: UPDATE SET acked = 1 WHERE id = ?
mark_reminder_acked(rs, rid) ==
    [i \in DOMAIN rs |-> IF i = rid THEN [rs[i] EXCEPT !.acked = 1] ELSE rs[i]]

\* mark_nudge_sent: UPDATE SET nudge_sent = 1 WHERE id = ?
mark_nudge_sent(rs, rid) ==
    [i \in DOMAIN rs |-> IF i = rid THEN [rs[i] EXCEPT !.nudge_sent = 1] ELSE rs[i]]

\* the WHERE clause without "nudge_sent = 0"
UnackedSentBeforeAnyNudge(r, cutoff) ==
    /\ r.delivered = 1
    /\ r.acked = 0
    /\ r.sent_at # NULL
    /\ r.sent_at <= cutoff

\* the WHERE clause without "sent_at <= ?"
UnackedSentAnyTime(r, cutoff) ==
    /\ r.delivered = 1
    /\ r.acked = 0
    /\ r.nudge_sent = 0
    /\ r.sent_at # NULL

\* get_unacked_sent_before: the WHERE clause
UnackedSentBefore(r, cutoff) ==
    /\ r.delivered = 1
    /\ r.acked = 0
    /\ r.nudge_sent = 0
    /\ r.sent_at # NULL
    /\ r.sent_at <= cutoff

\* get_unacked_sent_before: SELECT id, chat_id, text, sent_at ... ORDER BY sent_at
get_unacked_sent_before(rs, cutoff) ==
    LET s == BySentAt({ rs[i] : i \in { j \in DOMAIN rs : UnackedSentBefore(rs[j], cutoff) } })
    IN [k \in 1..Len(s) |->
           [id |-> s[k].id, chat_id |-> s[k].chat_id, text |-> s[k].text,
            sent_at |-> s[k].sent_at]]

\* delete_single_reminder_row: DELETE WHERE id = ? AND chat_id = ?
delete_single_reminder_row(rs, rid, chat_id) ==
    [i \in { j \in DOMAIN rs : ~(j = rid /\ rs[j].chat_id = chat_id) } |-> rs[i]]

\* delete_reminders: the rows matched by "id IN (...) AND chat_id = ?"
MatchedBy(rs, reminder_ids, chat_id) ==
    { i \in DOMAIN rs : i \in reminder_ids /\ rs[i].chat_id = chat_id }

\* the SELECT DISTINCT template_id without "AND chat_id = ?"
TemplatesOfIds(rs, reminder_ids, chat_id) ==
    { rs[i].template_id : i \in DOMAIN rs \cap reminder_ids } \ {NULL}

\* delete_reminders: SELECT DISTINCT template_id of the matched rows, without NULL
TemplatesOf(rs, reminder_ids, chat_id) ==
    { rs[i].template_id : i \in MatchedBy(rs, reminder_ids, chat_id) } \ {NULL}

\* delete_reminders: the tables after the call and the returned count
delete_reminders(rs, ts, reminder_ids, chat_id) ==
    [reminders |-> [i \in DOMAIN rs \ MatchedBy(rs, reminder_ids, chat_id) |-> rs[i]],
     templates |-> [t \in DOMAIN ts |->
                      IF t \in TemplatesOf(rs, reminder_ids, chat_id)
                      THEN [ts[t] EXCEPT !.active = 0] ELSE ts[t]],
     result |-> Cardinality(MatchedBy(rs, reminder_ids, chat_id))]

\* activate_recurring_template / deactivate_recurring_template
SetActive(ts, tid, a) ==
    [i \in DOMAIN ts |-> IF i = tid THEN [ts[i] EXCEPT !.active = a] ELSE ts[i]]
activate_recurring_template(ts, tid) == SetActive(ts, tid, 1)

\* a series delete that leaves recurring_templates alone
deactivate_skipped(ts, tid) == ts

deactivate_recurring_template(ts, tid) == SetActive(ts, tid, 0)

\* get_reminders_by_template_id: WHERE chat_id = ? AND template_id = ? ORDER BY remind_at
get_reminders_by_template_id(rs, tid, chat_id) ==
    LET s == ByRemindAt({ rs[i] : i \in { j \in DOMAIN rs :
                          rs[j].chat_id = chat_id /\ rs[j].template_id = tid } })
    IN [k \in 1..Len(s) |-> AsRow(s[k])]

\* delete_recurring_series (the later definition, line 721): the reminders part
DeleteSeriesRows(rs, tid, chat_id) ==
    [i \in { j \in DOMAIN rs : ~(rs[j].chat_id = chat_id /\ rs[j].template_id = tid) } |-> rs[i]]

\* delete_recurring_series (the later definition, line 721): the tables after
\* the call and the returned count
delete_recurring_series(rs, ts, tid, chat_id) ==
    [reminders |-> DeleteSeriesRows(rs, tid, chat_id),
     templates |-> SetActive(ts, tid, 0),
     result |-> Cardinality(DOMAIN rs \ DOMAIN DeleteSeriesRows(rs, tid, chat_id))]

(***************************************************************************)
(* Snapshots and undo                                                      *)
(***************************************************************************)
NoRow ==
    [id |-> NULL, chat_id |-> NULL, text |-> "", remind_at |-> NULL,
     delivered |-> NULL, created_by |-> NULL, template_id |-> NULL]

\* get_recurring_template_row returned None
NoTemplate ==
    [id |-> NULL, chat_id |-> NULL, text |-> "", pattern_type |-> "",
     payload |-> EmptyPayload, time_hour |-> NULL, time_minute |-> NULL,
     created_by |-> NULL, active |-> NULL]

get_recurring_template_row(ts, tid) ==
    IF tid \in DOMAIN ts THEN ts[tid] ELSE NoTemplate

Snapshot(kind, r, tpl, next_created_id, rs) ==
    [kind |-> kind, reminder |-> r, template |-> tpl,
     next_created_id |-> next_created_id, reminders |-> rs]

\* restore_deleted_snapshot (the later definition, line 815), kind "series":
\* the loop over snapshot["reminders"]
RECURSIVE RestoreSeriesRows(_, _, _, _)
RestoreSeriesRows(rs, rid, rows, tid) ==
    IF rows = <<>> THEN rs
    ELSE RestoreSeriesRows(
            add_reminder(rs, rid, Head(rows).chat_id, Head(rows).text,
                         Head(rows).remind_at, Head(rows).created_by, tid),
            rid + 1, Tail(rows), tid)

\* restore_deleted_snapshot: the tables after the call, and the returned value
\* (NULL for None, otherwise the number of re-created reminders)
\* a restore that puts a single reminder back under the id it had
restore_under_original_id(snapshot, rs, ts, rid) ==
    IF snapshot.kind = "single"
    THEN [reminders |-> add_reminder(rs, snapshot.reminder.id, snapshot.reminder.chat_id,
                                     snapshot.reminder.text, snapshot.reminder.remind_at,
                                     snapshot.reminder.created_by,
                                     snapshot.reminder.template_id),
          templates |-> ts, next_rid |-> rid, result |-> 1]
    ELSE [reminders |-> rs, templates |-> ts, next_rid |-> rid, result |-> NULL]

restore_deleted_snapshot(snapshot, rs, ts, rid) ==
    IF snapshot.kind = "single"
    THEN LET r == snapshot.reminder
             rs1 == IF snapshot.next_created_id # NULL
                    THEN delete_single_reminder_row(rs, snapshot.next_created_id, r.chat_id)
                    ELSE rs
             tpl == snapshot.template
             tid == IF tpl.id # NULL THEN tpl.id ELSE NULL
         IN [reminders |-> add_reminder(rs1, rid, r.chat_id, r.text, r.remind_at,
                                        r.created_by, tid),
             templates |-> IF tpl.id # NULL THEN activate_recurring_template(ts, tpl.id)
                           ELSE ts,
             next_rid |-> rid + 1,
             result |-> 1]
    ELSE IF snapshot.template.id = NULL
    THEN [reminders |-> rs, templates |-> ts, next_rid |-> rid, result |-> NULL]
    ELSE [reminders |-> RestoreSeriesRows(rs, rid, snapshot.reminders, snapshot.template.id),
          templates |-> activate_recurring_template(ts, snapshot.template.id),
          next_rid |-> rid + Len(snapshot.reminders),
          result |-> Len(snapshot.reminders)]

\* the token of make_undo_token is stored with the snapshot
RegisterUndo(snapshot) ==
    /\ undo_tokens' = With(undo_tokens, next_token, snapshot)
    /\ next_token' = next_token + 1
    /\ UNCHANGED <<undo_waiting, restored>>

(***************************************************************************)
(* Init                                                                    *)
(***************************************************************************)
\* no pure function has been called / the call has not returned
NoCall == [fn |-> "none"]
NoResult == [done |-> FALSE]

\* no bulk /remind has been answered
NoReply == [created |-> 0, failed |-> 0]

\* the tables after init_db on a new file, no callback or worker cycle in flight
EmptyStore ==
    /\ reminders = <<>>
    /\ templates = <<>>
    /\ next_rid = 1
    /\ next_tid = 1
    /\ undo_tokens = <<>>
    /\ next_token = 1
    /\ undo_waiting = <<>>
    /\ wpc = "sleep"
    /\ wnow = NULL
    /\ wdue = <<>>
    /\ npc = "sleep"
    /\ nrows = <<>>
    /\ ncutoff = NULL
    /\ sent = {}
    /\ nudged = {}
    /\ restored = {}
    /\ bulk_reply = NoReply

Init ==
    /\ now = StartInstant
    /\ EmptyStore
    /\ call = NoCall
    /\ result = NoResult

\* the bot is started on 26 October 2025 at 01:30
FoldInit ==
    /\ now = FoldStart
    /\ EmptyStore
    /\ call = NoCall
    /\ result = NoResult

(***************************************************************************)
(* The clock                                                               *)
(***************************************************************************)
\* the clock in the night summer time ends
FoldTick ==
    /\ \E t \in FoldClock : t > now /\ now' = t
    /\ UNCHANGED <<dbVars, undoVars, workerVars, nudgeVars, sent, nudged, bulk_reply, pureVars>>

Tick ==
    /\ \E t \in ClockReadings : t > now /\ now' = t
    /\ UNCHANGED <<dbVars, undoVars, workerVars, nudgeVars, sent, nudged, bulk_reply, pureVars>>

(***************************************************************************)
(* remind_command                                                          *)
(***************************************************************************)
\* the bounds of the run: n more rows fit / one more undo token fits
CanInsert(n) == next_rid + n - 1 <= MaxRid
CanDelete == next_token <= MaxToken

\* a one-off reminder "in <off> minutes - text"
RemindOneOff(chat, text, user, off) ==
    /\ CanInsert(1)
    /\ reminders' = add_reminder(reminders, next_rid, chat, text, now + off, user, NULL)
    /\ next_rid' = next_rid + 1
    /\ UNCHANGED <<now, templates, next_tid, undoVars, workerVars, nudgeVars, sent, nudged, bulk_reply, pureVars>>

\* a recurring reminder: parse_recurring, create_recurring_template, add_reminder
\* looks_like_recurring + parse_recurring / parse_date_time_smart on one line:
\* what they return, or kind "error" when they raise ValueError
ParseLine(line, t) ==
    CASE line = "every day 10:00 - a" ->
            [kind |-> "recurring", text |-> "a",
             pat |-> [pattern_type |-> "daily", payload |-> EmptyPayload,
                      time_hour |-> 10, time_minute |-> 0],
             remind_at |-> compute_next_occurrence("daily", EmptyPayload, 10, 0, t, TRUE)]
      [] line = "in 1 day - a" ->
            [kind |-> "oneoff", text |-> "a", pat |-> NULL, remind_at |-> t + MinutesPerDay]
      [] OTHER ->
            [kind |-> "error", text |-> "", pat |-> NULL, remind_at |-> NULL]

\* the store and the counters a bulk /remind starts with
BulkStart(rs, ts, rid, tid) ==
    [reminders |-> rs, templates |-> ts, next_rid |-> rid, next_tid |-> tid,
     created |-> 0, failed |-> 0]

\* remind_command, bulk mode: the body of "for line in lines", lines 2711-2762
RemindLine(st, chat, user, line, t) ==
    LET p == ParseLine(line, t)
    IN IF p.kind = "error"
       THEN [st EXCEPT !.failed = @ + 1]
       ELSE IF p.kind = "recurring"
       THEN [reminders |-> add_reminder(st.reminders, st.next_rid, chat, p.text,
                                        p.remind_at, user, st.next_tid),
             templates |-> create_recurring_template(st.templates, st.next_tid, chat,
                                                     p.text, p.pat, user),
             next_rid |-> st.next_rid + 1, next_tid |-> st.next_tid + 1,
             created |-> st.created + 1, failed |-> st.failed]
       ELSE [st EXCEPT !.reminders = add_reminder(st.reminders, st.next_rid, chat, p.text,
                                                  p.remind_at, user, NULL),
                       !.next_rid = @ + 1,
                       !.created = @ + 1]

\* the loop with the try around it instead of inside it: the first rejected
\* line ends the command
RECURSIVE RemindLinesUntilError(_, _, _, _, _)
RemindLinesUntilError(st, chat, user, lines, t) ==
    IF lines = <<>> THEN st
    ELSE IF ParseLine(Head(lines), t).kind = "error" THEN [st EXCEPT !.failed = @ + 1]
    ELSE RemindLinesUntilError(RemindLine(st, chat, user, Head(lines), t), chat, user,
                               Tail(lines), t)

\* remind_command, bulk mode: the loop over the lines
RECURSIVE RemindLines(_, _, _, _, _)
RemindLines(st, chat, user, lines, t) ==
    IF lines = <<>> THEN st
    ELSE RemindLines(RemindLine(st, chat, user, Head(lines), t), chat, user, Tail(lines), t)

\* "/remind" followed by lines "- <expr> - <text>"
RemindBulk(chat, user, lines) ==
    LET res == RemindLines(BulkStart(reminders, templates, next_rid, next_tid),
                           chat, user, lines, now)
    IN /\ res.next_rid <= MaxRid + 1
       /\ res.next_tid <= MaxTid + 1
       /\ reminders' = res.reminders
       /\ templates' = res.templates
       /\ next_rid' = res.next_rid
       /\ next_tid' = res.next_tid
       /\ bulk_reply' = [created |-> res.created, failed |-> res.failed]
       /\ UNCHANGED <<now, undoVars, workerVars, nudgeVars, sent, nudged, pureVars>>

\* "/remind <line>" with a line the parser rejects: the ValueError is caught,
\* the handler replies and returns (lines 2780-2782, 2836-2838)
RemindRejected(line) ==
    /\ ParseLine(line, now).kind = "error"
    /\ UNCHANGED vars

\* "/remind <recurring expression>" when create_recurring_template has
\* committed and add_reminder raises sqlite3.Error (lines 2784-2799: no handler)
RemindRecurringFail(chat, text, user, pat) ==
    /\ next_tid <= MaxTid
    /\ compute_next_occurrence(pat.pattern_type, pat.payload,
                               pat.time_hour, pat.time_minute, now, TRUE) # NULL
    /\ templates' = create_recurring_template(templates, next_tid, chat, text, pat, user)
    /\ next_tid' = next_tid + 1
    /\ UNCHANGED <<now, reminders, next_rid, undoVars, workerVars, nudgeVars, sent, nudged,
                   bulk_reply, pureVars>>

\* "/remind october 26 at HH:MM - <text>" on 26 October: _parse_month_name_date
\* builds datetime(year, 10, 26, HH, MM, tzinfo=TZ) and keeps the year, the
\* date being today's
RemindMonthDay(chat, text, user, hh, mm) ==
    /\ CanInsert(1)
    /\ reminders' = add_reminder(reminders, next_rid, chat, text,
                                 FromWallClock(MkInstant(2025, 10, 26, hh, mm)), user, NULL)
    /\ next_rid' = next_rid + 1
    /\ UNCHANGED <<now, templates, next_tid, undoVars, workerVars, nudgeVars, sent, nudged, bulk_reply, pureVars>>

RemindRecurring(chat, text, user, pat) ==
    LET first_dt == compute_next_occurrence(pat.pattern_type, pat.payload,
                                            pat.time_hour, pat.time_minute, now, TRUE)
    IN /\ next_tid <= MaxTid
       /\ CanInsert(1)
       /\ first_dt # NULL
       /\ templates' = create_recurring_template(templates, next_tid, chat, text, pat, user)
       /\ next_tid' = next_tid + 1
       /\ reminders' = add_reminder(reminders, next_rid, chat, text, first_dt, user, next_tid)
       /\ next_rid' = next_rid + 1
       /\ UNCHANGED <<now, undoVars, workerVars, nudgeVars, sent, nudged, bulk_reply, pureVars>>

(***************************************************************************)
(* reminders_worker                                                        *)
(***************************************************************************)
\* the cycle ends: asyncio.sleep(10)
WorkerAdvance ==
    /\ wdue' = Tail(wdue)
    /\ wpc' = IF Tail(wdue) = <<>> THEN "sleep" ELSE "send"
    /\ wnow' = IF Tail(wdue) = <<>> THEN NULL ELSE wnow

\* now = datetime.now(TZ); due = get_due_reminders(now)
WorkerScan ==
    /\ wpc = "sleep"
    /\ wdue' = get_due_reminders(reminders, now)
    /\ wpc' = IF wdue' = <<>> THEN "sleep" ELSE "send"
    /\ wnow' = IF wdue' = <<>> THEN NULL ELSE now
    /\ UNCHANGED <<now, dbVars, undoVars, nudgeVars, sent, nudged, bulk_reply, pureVars>>

\* await app.bot.send_message(...) returns
WorkerSendOk ==
    /\ wpc = "send"
    /\ sent' = sent \cup {Head(wdue).id}
    /\ wpc' = "mark"
    /\ UNCHANGED <<now, dbVars, undoVars, nudgeVars, wnow, wdue, nudged, bulk_reply, pureVars>>

\* await app.bot.send_message(...) raises: caught per item
WorkerSendFail ==
    /\ wpc = "send"
    /\ WorkerAdvance
    /\ UNCHANGED <<now, dbVars, undoVars, nudgeVars, sent, nudged, bulk_reply, pureVars>>

\* the next occurrence computed without reading tpl["active"]
NextOccurrenceIgnoringActive(ts, r) ==
    IF r.template_id = NULL \/ r.template_id \notin DOMAIN ts THEN NULL
    ELSE compute_next_occurrence(ts[r.template_id].pattern_type, ts[r.template_id].payload,
                                 ts[r.template_id].time_hour, ts[r.template_id].time_minute,
                                 r.remind_at, FALSE)

\* lines 3693-3715: the next occurrence of a recurring reminder
NextOccurrenceOf(ts, r) ==
    IF r.template_id = NULL \/ r.template_id \notin DOMAIN ts THEN NULL
    ELSE IF ts[r.template_id].active # 1 THEN NULL
    ELSE compute_next_occurrence(ts[r.template_id].pattern_type, ts[r.template_id].payload,
                                 ts[r.template_id].time_hour, ts[r.template_id].time_minute,
                                 r.remind_at, FALSE)

\* mark_reminder_sent(r.id, sent_at=now) and the recurring part of the item
WorkerMark ==
    /\ wpc = "mark"
    /\ NextOccurrenceOf(templates, Head(wdue)) # NULL => CanInsert(1)
    /\ LET r == Head(wdue)
           next_dt == NextOccurrenceOf(templates, r)
           rs1 == mark_reminder_sent(reminders, r.id, wnow)
       IN IF next_dt # NULL
          THEN /\ reminders' = add_reminder(rs1, next_rid,
                                   templates[r.template_id].chat_id,
                                   templates[r.template_id].text, next_dt,
                                   templates[r.template_id].created_by, r.template_id)
               /\ next_rid' = next_rid + 1
          ELSE /\ reminders' = rs1
               /\ next_rid' = next_rid
    /\ WorkerAdvance
    /\ UNCHANGED <<now, templates, next_tid, undoVars, nudgeVars, sent, nudged, bulk_reply, pureVars>>

\* mark_reminder_sent raises (sqlite3.Error) before its commit: caught per item
WorkerMarkFail ==
    /\ wpc = "mark"
    /\ WorkerAdvance
    /\ UNCHANGED <<now, dbVars, undoVars, nudgeVars, sent, nudged, bulk_reply, pureVars>>

\* mark_reminder_sent commits, then get_recurring_template or add_reminder raises:
\* caught per item
WorkerPostFail ==
    /\ wpc = "mark"
    /\ Head(wdue).template_id # NULL
    /\ reminders' = mark_reminder_sent(reminders, Head(wdue).id, wnow)
    /\ WorkerAdvance
    /\ UNCHANGED <<now, templates, next_rid, next_tid, undoVars, nudgeVars, sent, nudged, bulk_reply, pureVars>>

(***************************************************************************)
(* reminders_nudge_worker                                                  *)
(***************************************************************************)
NudgeAdvance ==
    /\ nrows' = Tail(nrows)
    /\ npc' = IF Tail(nrows) = <<>> THEN "sleep" ELSE "send"
    /\ ncutoff' = IF Tail(nrows) = <<>> THEN NULL ELSE ncutoff

\* now = get_now(); cutoff = now - 20 minutes; rows = get_unacked_sent_before(cutoff)
NudgeScan ==
    /\ npc = "sleep"
    /\ nrows' = get_unacked_sent_before(reminders, now - NudgeDelay)
    /\ npc' = IF nrows' = <<>> THEN "sleep" ELSE "send"
    /\ ncutoff' = IF nrows' = <<>> THEN NULL ELSE now - NudgeDelay
    /\ UNCHANGED <<now, dbVars, undoVars, workerVars, sent, nudged, bulk_reply, pureVars>>

NudgeSendOk ==
    /\ npc = "send"
    /\ nudged' = nudged \cup {Head(nrows).id}
    /\ npc' = "mark"
    /\ UNCHANGED <<now, dbVars, undoVars, workerVars, nrows, ncutoff, sent, bulk_reply, pureVars>>

NudgeSendFail ==
    /\ npc = "send"
    /\ NudgeAdvance
    /\ UNCHANGED <<now, dbVars, undoVars, workerVars, sent, nudged, bulk_reply, pureVars>>

NudgeMark ==
    /\ npc = "mark"
    /\ reminders' = mark_nudge_sent(reminders, Head(nrows).id)
    /\ NudgeAdvance
    /\ UNCHANGED <<now, templates, next_rid, next_tid, undoVars, workerVars, sent, nudged, bulk_reply, pureVars>>

\* mark_nudge_sent raises before its commit: caught per item
NudgeMarkFail ==
    /\ npc = "mark"
    /\ NudgeAdvance
    /\ UNCHANGED <<now, dbVars, undoVars, workerVars, sent, nudged, bulk_reply, pureVars>>

(***************************************************************************)
(* snooze_callback                                                         *)
(***************************************************************************)
\* buttons "done:<id>" / "snooze:<id>:<action>" exist for every reminder whose
\* delivery or nudge message reached the chat
HasKeyboard(rid) == rid \in sent \cup nudged

SnoozeActions == {"20m", "tomorrow"}

\* the buttons of build_snooze_keyboard that complete a snooze at once
SnoozeButtons == {"20m", "1h", "3h", "tomorrow", "nextmon"}

\* "nextmon" without "if delta == 0: delta = 7"
SnoozeInstantOnMonday(action, t) ==
    LET local == WallClock(t)
    IN CASE action = "20m" -> FromWallClock(local + 20)
         [] action = "1h" -> FromWallClock(local + 60)
         [] action = "3h" -> FromWallClock(local + 180)
         [] action = "tomorrow" -> FromWallClock(AtTime(local + MinutesPerDay, 11, 0))
         [] action = "nextmon" ->
               FromWallClock(AtTime(local, 11, 0)
                                + ((0 - Weekday(local) + 7) % 7) * MinutesPerDay)
         [] OTHER -> NULL

\* lines 3505-3521: the new instant of a snooze action.  now carries tzinfo=TZ,
\* so now + timedelta(...) adds to the date and time the clock shows, and the
\* result is what isoformat() stores for that reading (fold 0)
SnoozeInstant(action, t) ==
    LET local == WallClock(t)
    IN CASE action = "20m" -> FromWallClock(local + 20)
         [] action = "1h" -> FromWallClock(local + 60)
         [] action = "3h" -> FromWallClock(local + 180)
         [] action = "tomorrow" -> FromWallClock(AtTime(local + MinutesPerDay, 11, 0))
         [] action = "nextmon" ->
               LET delta0 == (0 - Weekday(local) + 7) % 7
                   delta == IF delta0 = 0 THEN 7 ELSE delta0
               IN FromWallClock(AtTime(local, 11, 0) + delta * MinutesPerDay)
         [] OTHER -> NULL

\* "done:<id>": mark_reminder_acked(rid)
DoneCallback(rid) ==
    /\ HasKeyboard(rid)
    /\ reminders' = mark_reminder_acked(reminders, rid)
    /\ UNCHANGED <<now, templates, next_rid, next_tid, undoVars, workerVars, nudgeVars,
                   sent, nudged, bulk_reply, pureVars>>

\* "snooze:<id>:<action>": get_reminder, mark_reminder_acked, add_reminder
SnoozeCallback(rid, action) ==
    /\ CanInsert(1)
    /\ HasKeyboard(rid)
    /\ IF rid \in Rids
       THEN /\ reminders' = add_reminder(mark_reminder_acked(reminders, rid), next_rid,
                                reminders[rid].chat_id, reminders[rid].text,
                                SnoozeInstant(action, now), reminders[rid].created_by, NULL)
            /\ next_rid' = next_rid + 1
       ELSE UNCHANGED <<reminders, next_rid>>
    /\ UNCHANGED <<now, templates, next_tid, undoVars, workerVars, nudgeVars, sent, nudged, bulk_reply, pureVars>>

\* a date of build_custom_date_keyboard (days after today) and a time of
\* build_custom_time_keyboard
PickDays == {1}
PickHours == {21}

\* "snooze_picktime:<id>:<date>:<HH>:00", a button of build_custom_time_keyboard
\* for a date of build_custom_date_keyboard (days after today):
\* new_dt = datetime(year, month, day, hour, minute, tzinfo=TZ)
SnoozePickTime(rid, days, hour) ==
    /\ CanInsert(1)
    /\ HasKeyboard(rid)
    /\ IF rid \in Rids
       THEN /\ reminders' = add_reminder(mark_reminder_acked(reminders, rid), next_rid,
                                reminders[rid].chat_id, reminders[rid].text,
                                FromWallClock(AtTime(WallClock(now), hour, 0)
                                                 + days * MinutesPerDay),
                                reminders[rid].created_by, NULL)
            /\ next_rid' = next_rid + 1
       ELSE UNCHANGED <<reminders, next_rid>>
    /\ UNCHANGED <<now, templates, next_tid, undoVars, workerVars, nudgeVars, sent, nudged, bulk_reply, pureVars>>

(***************************************************************************)
(* delete_callback, delete_choose_callback                                 *)
(***************************************************************************)
\* delete_single_reminder_with_snapshot: the snapshot, or NoRow in
\* snapshot.reminder when the function returns None
delete_single_reminder_with_snapshot(rs, ts, rid, target_chat_id) ==
    IF rid \notin DOMAIN rs \/ rs[rid].chat_id # target_chat_id
    THEN Snapshot("single", NoRow, NoTemplate, NULL, <<>>)
    ELSE Snapshot("single", AsRow(rs[rid]),
                  IF rs[rid].template_id # NULL
                  THEN get_recurring_template_row(ts, rs[rid].template_id)
                  ELSE NoTemplate,
                  NULL, <<>>)

\* delete_reminder_with_snapshot as first defined (line 554): delete_reminders
\* removes the row and stops its series
delete_reminder_with_snapshot_first(rs, ts, rid, target_chat_id) ==
    IF rid \notin DOMAIN rs \/ rs[rid].chat_id # target_chat_id
    THEN [reminders |-> rs, templates |-> ts,
          snapshot |-> Snapshot("single", NoRow, NoTemplate, NULL, <<>>)]
    ELSE [reminders |-> delete_reminders(rs, ts, {rid}, target_chat_id).reminders,
          templates |-> delete_reminders(rs, ts, {rid}, target_chat_id).templates,
          snapshot |-> delete_single_reminder_with_snapshot(rs, ts, rid, target_chat_id)]

\* delete_reminder_with_snapshot (the later definition, line 745): the tables
\* after delete_single_reminder_with_snapshot, and its snapshot
delete_reminder_with_snapshot(rs, ts, rid, target_chat_id) ==
    [reminders |-> IF rid \in DOMAIN rs /\ rs[rid].chat_id = target_chat_id
                   THEN delete_single_reminder_row(rs, rid, target_chat_id)
                   ELSE rs,
     templates |-> ts,
     snapshot |-> delete_single_reminder_with_snapshot(rs, ts, rid, target_chat_id)]

\* "del:<idx>" on a one-off reminder of the listed chat (a recurring one only
\* opens the one/series keyboard): delete_single_reminder_with_snapshot
DeleteSingle(rid) ==
    /\ CanDelete
    /\ rid \in Rids
    /\ reminders[rid].template_id = NULL
    /\ LET snapshot == delete_single_reminder_with_snapshot(
                           reminders, templates, rid, reminders[rid].chat_id)
       IN /\ reminders' = delete_single_reminder_row(reminders, rid, reminders[rid].chat_id)
          /\ RegisterUndo(snapshot)
    /\ UNCHANGED <<now, templates, next_rid, next_tid, workerVars, nudgeVars, sent, nudged, bulk_reply, pureVars>>

\* the guards without "if not tpl.get('active')"
CanDeleteOneOfAnySeries(rs, ts, rid, chat_id) ==
    /\ rid \in DOMAIN rs
    /\ rs[rid].chat_id = chat_id
    /\ rs[rid].template_id # NULL
    /\ rs[rid].template_id \in DOMAIN ts

\* delete_recurring_one_instance_and_reschedule: the guards before the delete
CanDeleteOne(rs, ts, rid, chat_id) ==
    /\ rid \in DOMAIN rs
    /\ rs[rid].chat_id = chat_id
    /\ rs[rid].template_id # NULL
    /\ rs[rid].template_id \in DOMAIN ts
    /\ ts[rs[rid].template_id].active = 1

\* delete_recurring_one_instance_and_reschedule: the instant of the new instance
RescheduleInstant(rs, ts, rid) ==
    LET tpl == ts[rs[rid].template_id]
    IN compute_next_occurrence(tpl.pattern_type, tpl.payload, tpl.time_hour,
                               tpl.time_minute, rs[rid].remind_at, FALSE)

\* "del_one:<rid>": delete_recurring_one_instance_and_reschedule(rid, list_chat_id)
DeleteOne(rid, chat) ==
    /\ CanDelete /\ CanInsert(1)
    /\ rid \in 1..(next_rid - 1)
    /\ IF CanDeleteOne(reminders, templates, rid, chat)
       THEN LET r == reminders[rid]
                tpl == templates[r.template_id]
                next_dt == RescheduleInstant(reminders, templates, rid)
                rs1 == delete_single_reminder_row(reminders, rid, chat)
            IN IF next_dt # NULL
               THEN /\ reminders' = add_reminder(rs1, next_rid, r.chat_id, r.text, next_dt,
                                                 r.created_by, tpl.id)
                    /\ next_rid' = next_rid + 1
                    /\ RegisterUndo(Snapshot("single", AsRow(r), tpl, next_rid, <<>>))
               ELSE /\ reminders' = rs1
                    /\ next_rid' = next_rid
                    /\ RegisterUndo(Snapshot("single", AsRow(r), tpl, NULL, <<>>))
       ELSE UNCHANGED <<reminders, next_rid, undoVars>>
    /\ UNCHANGED <<now, templates, next_tid, workerVars, nudgeVars, sent, nudged, bulk_reply, pureVars>>

\* "del_series:<tpl_id>": delete_recurring_series_with_snapshot(tpl_id, list_chat_id)
DeleteSeries(tid, chat) ==
    /\ CanDelete
    /\ tid \in 1..(next_tid - 1)
    /\ IF tid \in Tids /\ templates[tid].chat_id = chat
       THEN /\ reminders' = DeleteSeriesRows(reminders, tid, chat)
            /\ templates' = deactivate_recurring_template(templates, tid)
            /\ RegisterUndo(Snapshot("series", NoRow, templates[tid], NULL,
                                     get_reminders_by_template_id(reminders, tid, chat)))
       ELSE UNCHANGED <<reminders, templates, undoVars>>
    /\ UNCHANGED <<now, next_rid, next_tid, workerVars, nudgeVars, sent, nudged, bulk_reply, pureVars>>

(***************************************************************************)
(* Repository functions called directly (as src/tests call them)           *)
(***************************************************************************)
\* delete_reminders(reminder_ids, chat_id)
DeleteReminders(reminder_ids, chat) ==
    /\ reminders' = delete_reminders(reminders, templates, reminder_ids, chat).reminders
    /\ templates' = delete_reminders(reminders, templates, reminder_ids, chat).templates
    /\ UNCHANGED <<now, next_rid, next_tid, undoVars, workerVars, nudgeVars, sent, nudged, bulk_reply, pureVars>>

\* delete_recurring_series(template_id, chat_id)
DeleteRecurringSeries(tid, chat) ==
    /\ reminders' = delete_recurring_series(reminders, templates, tid, chat).reminders
    /\ templates' = delete_recurring_series(reminders, templates, tid, chat).templates
    /\ UNCHANGED <<now, next_rid, next_tid, undoVars, workerVars, nudgeVars, sent, nudged, bulk_reply, pureVars>>

\* snapshot = delete_reminder_with_snapshot(rid, target_chat_id) on any reminder,
\* one-off or recurring; the snapshot is kept for a later restore
DeleteWithSnapshot(rid, chat) ==
    /\ CanDelete
    /\ LET res == delete_reminder_with_snapshot(reminders, templates, rid, chat)
       IN /\ reminders' = res.reminders
          /\ templates' = res.templates
          /\ IF res.snapshot.reminder # NoRow
             THEN RegisterUndo(res.snapshot)
             ELSE UNCHANGED undoVars
    /\ UNCHANGED <<now, next_rid, next_tid, workerVars, nudgeVars, sent, nudged, bulk_reply, pureVars>>

\* mark_reminder_sent(rid, sent_at=t)
MarkSent(rid, t) ==
    /\ reminders' = mark_reminder_sent(reminders, rid, t)
    /\ UNCHANGED <<now, templates, next_rid, next_tid, undoVars, workerVars, nudgeVars,
                   sent, nudged, bulk_reply, pureVars>>

(***************************************************************************)
(* undo_callback                                                           *)
(***************************************************************************)
\* "undo:<token>" pressed: the handler runs up to await query.answer(...)
UndoPress(tok) ==
    /\ Len(undo_waiting) < MaxUndoWaiting
    /\ tok \in 1..(next_token - 1)
    /\ undo_waiting' = Append(undo_waiting, tok)
    /\ UNCHANGED <<now, dbVars, undo_tokens, next_token, restored, workerVars, nudgeVars,
                   sent, nudged, bulk_reply, pureVars>>

\* store.get(token) without del store[token]
KeepToken(store, tok) == store

\* store.get(token); del store[token]
TakeToken(store, tok) == Without(store, tok)

\* rows a restore of the snapshot inserts
RestoreSize(snapshot) == IF snapshot.kind = "single" THEN 1 ELSE Len(snapshot.reminders)

RemoveAt(q, k) == [x \in 1..(Len(q) - 1) |-> IF x < k THEN q[x] ELSE q[x + 1]]

\* the handler resumes: lines 3402-3416
UndoRun(k) ==
    /\ k \in 1..Len(undo_waiting)
    /\ undo_waiting' = RemoveAt(undo_waiting, k)
    /\ LET tok == undo_waiting[k]
       IN IF tok \in DOMAIN undo_tokens
          THEN LET res == restore_deleted_snapshot(undo_tokens[tok], reminders,
                                                   templates, next_rid)
               IN /\ CanInsert(RestoreSize(undo_tokens[tok]))
                  /\ undo_tokens' = TakeToken(undo_tokens, tok)
                  /\ restored' = restored \cup
                                     {[token |-> tok, kind |-> undo_tokens[tok].kind]}
                  /\ reminders' = res.reminders
                  /\ templates' = res.templates
                  /\ next_rid' = res.next_rid
          ELSE UNCHANGED <<undo_tokens, restored, reminders, templates, next_rid>>
    /\ UNCHANGED <<now, next_tid, next_token, workerVars, nudgeVars, sent, nudged, bulk_reply, pureVars>>

(***************************************************************************)
(* The system: series, delivery, deletion and undo                         *)
(***************************************************************************)
Next ==
    \/ Tick
    \/ \E chat \in CreateChats, text \in Texts, user \in Users, pat \in Patterns :
          RemindRecurring(chat, text, user, pat)
    \/ WorkerScan
    \/ WorkerSendOk
    \/ WorkerSendFail
    \/ WorkerMark
    \/ WorkerMarkFail
    \/ WorkerPostFail
    \/ \E rid \in 1..(next_rid - 1), chat \in Chats : DeleteOne(rid, chat)
    \/ \E tid \in 1..(next_tid - 1), chat \in Chats : DeleteSeries(tid, chat)
    \/ \E tok \in 1..(next_token - 1) : UndoPress(tok)
    \/ \E k \in 1..Len(undo_waiting) : UndoRun(k)
    \/ \E rid \in 1..(next_rid - 1) : DoneCallback(rid)

Spec == Init /\ [][Next]_vars

(***************************************************************************)
(* The system: every kind of deletion and its undo                         *)
(***************************************************************************)
UndoNext ==
    \/ Tick
    \/ \E chat \in CreateChats, text \in Texts, user \in Users, off \in OneOffOffsets :
          RemindOneOff(chat, text, user, off)
    \/ \E chat \in CreateChats, text \in Texts, user \in Users, pat \in Patterns :
          RemindRecurring(chat, text, user, pat)
    \/ WorkerScan
    \/ WorkerSendOk
    \/ WorkerMark
    \/ \E rid \in 1..(next_rid - 1) : DeleteSingle(rid)
    \/ \E rid \in 1..(next_rid - 1), chat \in Chats : DeleteOne(rid, chat)
    \/ \E tid \in 1..(next_tid - 1), chat \in Chats : DeleteSeries(tid, chat)
    \/ \E tok \in 1..(next_token - 1) : UndoPress(tok)
    \/ \E k \in 1..Len(undo_waiting) : UndoRun(k)

UndoSpec == Init /\ [][UndoNext]_vars

(***************************************************************************)
(* The system: delivery, acknowledgement and nudges                        *)
(***************************************************************************)
NudgeNext ==
    \/ Tick
    \/ \E chat \in CreateChats, text \in Texts, user \in Users, pat \in Patterns :
          RemindRecurring(chat, text, user, pat)
    \/ WorkerScan
    \/ WorkerSendOk
    \/ WorkerSendFail
    \/ WorkerMark
    \/ NudgeScan
    \/ NudgeSendOk
    \/ NudgeSendFail
    \/ NudgeMark
    \/ NudgeMarkFail
    \/ \E rid \in 1..(next_rid - 1) : DoneCallback(rid)
    \/ \E rid \in 1..(next_rid - 1), action \in SnoozeActions : SnoozeCallback(rid, action)

NudgeSpec == Init /\ [][NudgeNext]_vars

(***************************************************************************)
(* The repository: its functions called in any order                       *)
(***************************************************************************)
RepoNext ==
    \/ \E chat \in CreateChats, text \in Texts, user \in Users, off \in OneOffOffsets :
          RemindOneOff(chat, text, user, off)
    \/ \E chat \in CreateChats, text \in Texts, user \in Users, pat \in Patterns :
          RemindRecurring(chat, text, user, pat)
    \/ \E ids \in SUBSET (1..(next_rid - 1)), chat \in Chats : DeleteReminders(ids, chat)
    \/ \E rid \in 1..(next_rid - 1), chat \in Chats : DeleteWithSnapshot(rid, chat)
    \/ \E rid \in 1..(next_rid - 1), t \in ClockReadings : MarkSent(rid, t)

RepoSpec == Init /\ [][RepoNext]_vars

(***************************************************************************)
(* The repository and the delete handlers: every delete operation, with    *)
(* ids and chats that match and that do not                                *)
(***************************************************************************)
DeleteNext ==
    \/ RepoNext
    \/ \E rid \in 1..(next_rid - 1), chat \in Chats : DeleteOne(rid, chat)
    \/ \E tid \in 1..(next_tid - 1), chat \in Chats : DeleteSeries(tid, chat)
    \/ \E tid \in 1..(next_tid - 1), chat \in Chats : DeleteRecurringSeries(tid, chat)

DeleteSpec == Init /\ [][DeleteNext]_vars

(***************************************************************************)
(* /list @user: reminders set by two users in two chats, some delivered,   *)
(* and then one call of get_active_reminders_created_by_for_chat           *)
(***************************************************************************)
\* the users of test_list_user_scope_only_my_created
ListUsers == {1000, 9999}

\* rows = get_active_reminders_created_by_for_chat(chat_id, created_by)
ListCreatedBy(chat, user) ==
    /\ call' = [fn |-> "get_active_reminders_created_by_for_chat",
                chat_id |-> chat, created_by |-> user]
    /\ result' = [done |-> TRUE,
                  value |-> get_active_reminders_created_by_for_chat(reminders, chat, user)]
    /\ UNCHANGED <<now, dbVars, undoVars, workerVars, nudgeVars, sent, nudged, bulk_reply>>

ListNext ==
    \/ /\ ~result.done
       /\ \E chat \in Chats, text \in Texts, user \in ListUsers,
             off \in {MinutesPerDay, 2 * MinutesPerDay} :
             RemindOneOff(chat, text, user, off)
    \/ /\ ~result.done
       /\ \E rid \in 1..(next_rid - 1) : MarkSent(rid, now)
    \/ /\ ~result.done
       /\ \E chat \in Chats, user \in ListUsers : ListCreatedBy(chat, user)

ListSpec == Init /\ [][ListNext]_vars

(***************************************************************************)
(* The system: one series, its delivery and the ways to stop it            *)
(***************************************************************************)
SeriesNext ==
    \/ Tick
    \/ \E chat \in CreateChats, text \in Texts, user \in Users, pat \in Patterns :
          RemindRecurring(chat, text, user, pat)
    \/ WorkerScan
    \/ WorkerSendOk
    \/ WorkerMark
    \/ \E ids \in SUBSET (1..(next_rid - 1)), chat \in Chats : DeleteReminders(ids, chat)
    \/ \E rid \in 1..(next_rid - 1), chat \in Chats : DeleteOne(rid, chat)
    \/ \E tid \in 1..(next_tid - 1), chat \in Chats : DeleteSeries(tid, chat)

SeriesSpec == Init /\ [][SeriesNext]_vars

(***************************************************************************)
(* The system: remind_command in single and bulk mode                      *)
(***************************************************************************)
RemindNext ==
    \/ Tick
    \/ \E chat \in CreateChats, text \in Texts, user \in Users, off \in OneOffOffsets :
          RemindOneOff(chat, text, user, off)
    \/ \E chat \in CreateChats, text \in Texts, user \in Users, pat \in Patterns :
          RemindRecurring(chat, text, user, pat)
    \/ \E chat \in CreateChats, text \in Texts, user \in Users, pat \in Patterns :
          RemindRecurringFail(chat, text, user, pat)
    \/ \E line \in RemindLinesIn : RemindRejected(line)
    \/ \E chat \in CreateChats, user \in Users, lines \in BulkInputs :
          RemindBulk(chat, user, lines)

RemindSpec == Init /\ [][RemindNext]_vars

(***************************************************************************)
(* The system: one-off reminders and their delivery in the night summer    *)
(* time ends                                                               *)
(***************************************************************************)
FoldNext ==
    \/ FoldTick
    \/ \E chat \in CreateChats, text \in Texts, user \in Users, hm \in FoldTimes :
          RemindMonthDay(chat, text, user, hm[1], hm[2])
    \/ WorkerScan
    \/ WorkerSendOk
    \/ WorkerSendFail
    \/ WorkerMark

FoldSpec == FoldInit /\ [][FoldNext]_vars

(***************************************************************************)
(* The system: one series of every pattern type, delivered occurrence      *)
(* after occurrence across both changes of the clocks                      *)
(***************************************************************************)
\* "every day 02:30", "every sunday 02:30", "every weekend 02:30",
\* "every month 26 02:30", "every month 31 10:00", "every year 26.10 02:30",
\* "every year 29.02 10:00"
RunPatterns ==
    { [pattern_type |-> "daily", payload |-> EmptyPayload,
       time_hour |-> 2, time_minute |-> 30],
      [pattern_type |-> "weekly", payload |-> Payload(6, {}, NULL, NULL),
       time_hour |-> 2, time_minute |-> 30],
      [pattern_type |-> "weekly_multi", payload |-> Payload(NULL, {5, 6}, NULL, NULL),
       time_hour |-> 2, time_minute |-> 30],
      [pattern_type |-> "monthly", payload |-> Payload(NULL, {}, 26, NULL),
       time_hour |-> 2, time_minute |-> 30],
      [pattern_type |-> "monthly", payload |-> Payload(NULL, {}, 31, NULL),
       time_hour |-> 10, time_minute |-> 0],
      [pattern_type |-> "yearly", payload |-> Payload(NULL, {}, 26, 10),
       time_hour |-> 2, time_minute |-> 30],
      [pattern_type |-> "yearly", payload |-> Payload(NULL, {}, 29, 2),
       time_hour |-> 10, time_minute |-> 0] }

\* the bot is started two days before summer time begins, two days before it
\* ends, in the hour that is repeated, or on 28 November
RunInit ==
    /\ now \in { MkInstant(2025, 3, 28, 10, 0),
                 FromWallClock(MkInstant(2025, 10, 24, 10, 0)),
                 SecondPass(2, 10),
                 StartInstant }
    /\ EmptyStore
    /\ call = NoCall
    /\ result = NoResult

\* time passes until an undelivered reminder is due
WaitUntilDue ==
    /\ wpc = "sleep"
    /\ \E i \in Rids :
          /\ reminders[i].delivered = 0
          /\ reminders[i].remind_at > now
          /\ now' = reminders[i].remind_at
    /\ UNCHANGED <<dbVars, undoVars, workerVars, nudgeVars, sent, nudged, bulk_reply, pureVars>>

RunNext ==
    \/ \E chat \in CreateChats, text \in Texts, user \in Users, pat \in RunPatterns :
          RemindRecurring(chat, text, user, pat)
    \/ WaitUntilDue
    \/ WorkerScan
    \/ WorkerSendOk
    \/ WorkerMark

RunSpec == RunInit /\ [][RunNext]_vars

(***************************************************************************)
(* The system: reminders delivered and snoozed with every button, on every *)
(* day of a week and around both changes of the clocks                     *)
(***************************************************************************)
\* the bot is started at 10:00 on Friday 28 November, on the Saturday or on
\* the Sunday after it (the first reminder is then due on a Saturday, a Sunday
\* or a Monday), or on Friday 24 October at 10:00 in summer time, two days
\* before the clocks go back
SnoozeInit ==
    /\ now \in { StartInstant + k * MinutesPerDay : k \in 0..2 }
               \cup { FromWallClock(MkInstant(2025, 10, 24, 10, 0)) }
    /\ EmptyStore
    /\ call = NoCall
    /\ result = NoResult

SnoozeNext ==
    \/ \E chat \in CreateChats, text \in Texts, user \in Users, pat \in Patterns :
          RemindRecurring(chat, text, user, pat)
    \/ WaitUntilDue
    \/ WorkerScan
    \/ WorkerSendOk
    \/ WorkerMark
    \/ \E rid \in 1..(next_rid - 1) : DeleteSingle(rid)
    \/ \E rid \in 1..(next_rid - 1), action \in SnoozeButtons : SnoozeCallback(rid, action)
    \/ \E rid \in 1..(next_rid - 1), days \in PickDays, hour \in PickHours :
          SnoozePickTime(rid, days, hour)

SnoozeSpec == SnoozeInit /\ [][SnoozeNext]_vars

(***************************************************************************)
(* The system: delivery under a fair scheduler                             *)
(***************************************************************************)
LiveNext ==
    \/ Tick
    \/ \E chat \in CreateChats, text \in Texts, user \in Users, pat \in Patterns :
          RemindRecurring(chat, text, user, pat)
    \/ WorkerScan
    \/ WorkerSendOk
    \/ WorkerSendFail
    \/ WorkerMark
    \/ \E rid \in 1..(next_rid - 1), action \in SnoozeActions : SnoozeCallback(rid, action)
    \/ \E tid \in 1..(next_tid - 1), chat \in Chats : DeleteSeries(tid, chat)

\* the worker's loop keeps running (asyncio schedules the task again after every
\* await), send_message succeeds eventually, and the synchronous stretch after a
\* successful send runs
(***************************************************************************)
(* compute_next_occurrence on its own: one call with arguments of OccCalls *)
(***************************************************************************)
OccInit ==
    /\ now = StartInstant
    /\ EmptyStore
    /\ call \in OccCalls
    /\ result = NoResult

ComputeNextOccurrence ==
    /\ call.fn = "compute_next_occurrence"
    /\ ~result.done
    /\ result' = [done |-> TRUE,
                  value |-> next_candidate(call.pattern_type, call.payload, call.time_hour,
                                           call.time_minute, call.after_dt, call.same_tz)]
    /\ UNCHANGED <<now, dbVars, undoVars, workerVars, nudgeVars, sent, nudged, bulk_reply,
                   call>>

OccNext == ComputeNextOccurrence

OccSpec == OccInit /\ [][OccNext]_vars

(***************************************************************************)
(* The functions of the parser on their own: one call of                   *)
(* parse_date_time_smart or of _split_expr_and_text                        *)
(***************************************************************************)
ParseInit ==
    /\ now = StartInstant
    /\ EmptyStore
    /\ call \in ParseCalls \cup SplitCalls
    /\ result = NoResult

ParseDateTimeSmart ==
    /\ call.fn = "parse_date_time_smart"
    /\ ~result.done
    /\ result' = [done |-> TRUE, value |-> parse_date_time_smart(call.expr, call.now)]
    /\ UNCHANGED <<now, dbVars, undoVars, workerVars, nudgeVars, sent, nudged, bulk_reply,
                   call>>

SplitExprAndText ==
    /\ call.fn = "_split_expr_and_text"
    /\ ~result.done
    /\ result' = [done |-> TRUE, value |-> _split_expr_and_text(call.s)]
    /\ UNCHANGED <<now, dbVars, undoVars, workerVars, nudgeVars, sent, nudged, bulk_reply,
                   call>>

ParseNext == ParseDateTimeSmart \/ SplitExprAndText

ParseSpec == ParseInit /\ [][ParseNext]_vars

LiveSpec ==
    /\ Init
    /\ [][LiveNext]_vars
    /\ WF_vars(WorkerScan)
    /\ SF_vars(WorkerSendOk)
    /\ WF_vars(WorkerMark)

(***************************************************************************)
(* Properties                                                              *)
(***************************************************************************)
\* undelivered reminders of template tid
PendingOf(rs, tid) == { i \in DOMAIN rs : rs[i].template_id = tid /\ rs[i].delivered = 0 }

\* ids of the rows of a sequence
Ids(rows) == { rows[k].id : k \in 1..Len(rows) }

\* C1: in every reachable state each recurring template has at most one reminder
\* with delivered = 0 whose template_id is the template's id.
OnePendingPerTemplate ==
    \A t \in Tids : Cardinality(PendingOf(reminders, t)) <= 1

\* C2: the delivery worker's send_message succeeds at most once for every
\* reminder id: no step in which the send succeeds is for an id whose send has
\* succeeded before, whatever was raised later in that item's processing.
SendSucceedsOncePerReminder ==
    [][WorkerSendOk => Head(wdue).id \notin sent]_vars

\* C3: when the worker completes the delivery of a reminder r of template t: if
\* t is active and compute_next_occurrence(t..., r.remind_at) returns d, exactly
\* one reminder is inserted, undelivered, with template_id = t and remind_at = d;
\* if t is inactive or there is no next occurrence (or r has no template),
\* nothing is inserted.
DeliveryCreatesNextOccurrence ==
    [][WorkerMark =>
        LET r == Head(wdue)
            t == r.template_id
            d == IF t = NULL THEN NULL
                 ELSE compute_next_occurrence(templates[t].pattern_type, templates[t].payload,
                                              templates[t].time_hour, templates[t].time_minute,
                                              r.remind_at, FALSE)
            added == DOMAIN reminders' \ DOMAIN reminders
        IN IF t # NULL /\ templates[t].active = 1 /\ d # NULL
           THEN /\ Cardinality(added) = 1
                /\ \A i \in added :
                      /\ reminders'[i].template_id = t
                      /\ reminders'[i].remind_at = d
                      /\ reminders'[i].delivered = 0
           ELSE added = {}]_vars

\* C3 witness: a delivered occurrence and the pending next occurrence the worker
\* inserted for it
NextOccurrenceInserted ==
    \E i \in Rids, j \in Rids :
        /\ i < j /\ i \in sent
        /\ reminders[i].delivered = 1
        /\ reminders[i].template_id # NULL
        /\ reminders[j].template_id = reminders[i].template_id
        /\ reminders[j].delivered = 0
        /\ reminders[j].remind_at =
              compute_next_occurrence(templates[reminders[i].template_id].pattern_type,
                                      templates[reminders[i].template_id].payload,
                                      templates[reminders[i].template_id].time_hour,
                                      templates[reminders[i].template_id].time_minute,
                                      reminders[i].remind_at, FALSE)
        /\ restored = {} /\ next_token = 1

Due(rid) ==
    rid \in Rids /\ reminders[rid].delivered = 0 /\ reminders[rid].remind_at <= now

PendingAt(rows, remind_at) ==
    { k \in 1..Len(rows) : rows[k].delivered = 0 /\ rows[k].remind_at = remind_at }

\* C5: delete_recurring_one_instance_and_reschedule on an occurrence of an active
\* series removes it and inserts exactly one new pending occurrence of the series;
\* restore_deleted_snapshot on its snapshot removes the auto-created occurrence,
\* re-inserts the original (same remind_at, text, template_id) and leaves exactly
\* one pending occurrence of the series.
DeleteOneAndUndoKeepOnePending ==
    [][/\ \A rid \in Rids, chat \in Chats :
            (DeleteOne(rid, chat) /\ CanDeleteOne(reminders, templates, rid, chat)) =>
                LET added == DOMAIN reminders' \ DOMAIN reminders
                IN /\ rid \notin DOMAIN reminders'
                   /\ Cardinality(added) = 1
                   /\ \A i \in added : /\ reminders'[i].delivered = 0
                                       /\ reminders'[i].template_id = reminders[rid].template_id
       /\ \A k \in 1..Len(undo_waiting) :
            (/\ UndoRun(k)
             /\ undo_waiting[k] \in DOMAIN undo_tokens
             /\ undo_tokens[undo_waiting[k]].kind = "single"
             /\ undo_tokens[undo_waiting[k]].next_created_id # NULL) =>
                LET snapshot == undo_tokens[undo_waiting[k]]
                    added == DOMAIN reminders' \ DOMAIN reminders
                IN /\ snapshot.next_created_id \notin DOMAIN reminders'
                   /\ \A i \in added :
                         /\ reminders'[i].remind_at = snapshot.reminder.remind_at
                         /\ reminders'[i].text = snapshot.reminder.text
                         /\ reminders'[i].template_id = snapshot.reminder.template_id
                   /\ Cardinality(PendingOf(reminders', snapshot.template.id)) = 1]_vars

\* C6: delete_recurring_series_with_snapshot(t) leaves no pending reminder of t,
\* keeps every pending reminder of t in its snapshot and sets t.active = 0;
\* restore_deleted_snapshot on that snapshot sets t.active = 1 and inserts, for
\* every reminder that was pending, a reminder with delivered = 0, the same
\* remind_at and template_id = t.
SeriesDeleteAndRestore ==
    [][/\ \A tid \in Tids, chat \in Chats :
            (DeleteSeries(tid, chat) /\ templates[tid].chat_id = chat) =>
                /\ PendingOf(reminders', tid) = {}
                /\ templates'[tid].active = 0
                /\ \A i \in PendingOf(reminders, tid) :
                      \E k \in PendingAt(undo_tokens'[next_token].reminders,
                                         reminders[i].remind_at) :
                          undo_tokens'[next_token].reminders[k].id = i
       /\ \A k \in 1..Len(undo_waiting) :
            (/\ UndoRun(k)
             /\ undo_waiting[k] \in DOMAIN undo_tokens
             /\ undo_tokens[undo_waiting[k]].kind = "series") =>
                LET snapshot == undo_tokens[undo_waiting[k]]
                    t == snapshot.template.id
                    added == DOMAIN reminders' \ DOMAIN reminders
                IN /\ templates'[t].active = 1
                   /\ \A j \in 1..Len(snapshot.reminders) :
                         snapshot.reminders[j].delivered = 0 =>
                            Cardinality({ i \in added :
                                            /\ reminders'[i].delivered = 0
                                            /\ reminders'[i].template_id = t
                                            /\ reminders'[i].remind_at =
                                                  snapshot.reminders[j].remind_at })
                            >= Cardinality(PendingAt(snapshot.reminders,
                                                     snapshot.reminders[j].remind_at))]_vars

\* C6 witness: a series snapshot has been restored; the template is active again
\* and the series has a pending reminder
SeriesRestored ==
    \E x \in restored, t \in Tids :
        /\ x.kind = "series"
        /\ templates[t].active = 1
        /\ PendingOf(reminders, t) # {}

\* C7: restore_deleted_snapshot runs at most once for a token: an undo_callback
\* invocation that resumes with a token already restored finds no snapshot and
\* leaves the tables and the token store unchanged
UndoTokenSingleUse ==
    [][\A k \in 1..Len(undo_waiting) :
          (UndoRun(k) /\ \E x \in restored : x.token = undo_waiting[k]) =>
              /\ undo_waiting[k] \notin DOMAIN undo_tokens
              /\ restored' = restored
              /\ UNCHANGED <<reminders, templates, next_rid, next_tid, undo_tokens>>]_vars

\* C7 witness: a token has been restored while a second invocation carrying it
\* is still suspended in its first await
SecondUndoInFlight ==
    \E x \in restored, k \in 1..Len(undo_waiting) :
        /\ undo_waiting[k] = x.token
        /\ x.token \notin DOMAIN undo_tokens

\* C8: in every reachable state every reminder with delivered = 0 has
\* sent_at NULL, acked = 0 and nudge_sent = 0.
UndeliveredIsUntouched ==
    \A i \in Rids :
        reminders[i].delivered = 0 =>
            /\ reminders[i].sent_at = NULL
            /\ reminders[i].acked = 0
            /\ reminders[i].nudge_sent = 0

StoppedSeriesGetsNoReminder ==
    [][\A t \in Tids :
          (templates[t].active = 0 /\ templates'[t].active = 0) =>
              /\ \A i \in DOMAIN reminders' \ DOMAIN reminders : reminders'[i].template_id # t
              /\ \A rid \in Rids, chat \in Chats :
                    (DeleteOne(rid, chat) /\ reminders[rid].template_id = t) =>
                        reminders' = reminders]_vars

\* C11 witness: the series is stopped, the last reminder ever inserted has been
\* sent and the worker has finished its item without inserting a successor
StoppedSeriesDelivered ==
    \E t \in Tids :
        /\ templates[t].active = 0
        /\ wpc = "sleep"
        /\ next_rid - 1 \in sent

\* C12: in every state the repository reaches,
\* delete_reminder_with_snapshot(rid, chat) removes exactly the row with
\* that id and chat_id (nothing when there is none) and changes no template
\* and no other reminder.
DeleteSingleTouchesOneRow ==
    \A rid \in 1..MaxRid, chat \in Chats :
        LET res == delete_reminder_with_snapshot(reminders, templates, rid, chat)
        IN /\ res.templates = templates
           /\ DOMAIN res.reminders =
                 Rids \ { i \in Rids : i = rid /\ reminders[i].chat_id = chat }
           /\ \A i \in DOMAIN res.reminders : res.reminders[i] = reminders[i]

\* C12 witness: a recurring reminder has been deleted with a snapshot and its
\* template is still active
RecurringDeletedSeriesActive ==
    \E tok \in DOMAIN undo_tokens :
        /\ undo_tokens[tok].kind = "single"
        /\ undo_tokens[tok].reminder.template_id # NULL
        /\ undo_tokens[tok].reminder.id \notin Rids
        /\ templates[undo_tokens[tok].reminder.template_id].active = 1

\* C13: in every state the repository reaches, delete_reminders(ids, chat_id)
\* deletes exactly the reminders with id in
\* ids and that chat_id, returns their number, sets active = 0 on exactly the
\* templates the deleted reminders refer to, and leaves every other template
\* and every other reminder (its template link included) unchanged.
DeleteRemindersExact ==
    \A ids \in SUBSET (1..MaxRid), chat \in Chats :
        LET res == delete_reminders(reminders, templates, ids, chat)
            gone == { i \in Rids : i \in ids /\ reminders[i].chat_id = chat }
            stopped == { reminders[i].template_id : i \in gone } \ {NULL}
        IN /\ DOMAIN res.reminders = Rids \ gone
           /\ \A i \in DOMAIN res.reminders : res.reminders[i] = reminders[i]
           /\ res.result = Cardinality(gone)
           /\ DOMAIN res.templates = Tids
           /\ \A t \in Tids :
                 IF t \in stopped
                 THEN res.templates[t] = [templates[t] EXCEPT !.active = 0]
                 ELSE res.templates[t] = templates[t]

\* C13 witness: a series stopped by delete_reminders next to a one-off reminder
\* that is still in the table
SeriesStoppedOneOffKept ==
    \E t \in Tids, i \in Rids :
        /\ templates[t].active = 0
        /\ PendingOf(reminders, t) = {}
        /\ reminders[i].template_id = NULL

\* C14: deleting a one-off reminder with a snapshot removes its row, and restoring
\* that snapshot leaves the original id absent and adds exactly one row: a new
\* undelivered reminder with the snapshot's chat_id, text, remind_at and
\* created_by and no template; every other row and every template stays as it was.
OneOffDeleteThenRestore ==
    [][/\ \A rid \in Rids :
            DeleteSingle(rid) =>
                /\ rid \notin DOMAIN reminders'
                /\ undo_tokens'[next_token].reminder = AsRow(reminders[rid])
       /\ \A k \in 1..Len(undo_waiting) :
            (/\ UndoRun(k)
             /\ undo_waiting[k] \in DOMAIN undo_tokens
             /\ undo_tokens[undo_waiting[k]].kind = "single"
             /\ undo_tokens[undo_waiting[k]].reminder.template_id = NULL) =>
                LET r == undo_tokens[undo_waiting[k]].reminder
                IN /\ r.id \notin DOMAIN reminders'
                   /\ DOMAIN reminders' = Rids \cup {next_rid}
                   /\ next_rid \notin Rids
                   /\ \A i \in Rids : reminders'[i] = reminders[i]
                   /\ reminders'[next_rid].chat_id = r.chat_id
                   /\ reminders'[next_rid].text = r.text
                   /\ reminders'[next_rid].remind_at = r.remind_at
                   /\ reminders'[next_rid].created_by = r.created_by
                   /\ reminders'[next_rid].delivered = 0
                   /\ reminders'[next_rid].template_id = NULL
                   /\ templates' = templates]_vars

\* C14 witness: no series was ever created, a one-off reminder was deleted and
\* its snapshot restored, and the restored reminder is in the table
OneOffRestored ==
    /\ next_tid = 1
    /\ \E x \in restored : x.kind = "single"
    /\ \E i \in Rids : reminders[i].delivered = 0 /\ i = next_rid - 1

\* C15: mark_reminder_sent(id, t) on an undelivered reminder sets delivered = 1,
\* sent_at = t, acked = 0 and leaves nudge_sent = 0; on a reminder that is
\* already delivered it changes nothing.
MarkSentOnceOnly ==
    \A rid \in Rids, t \in ClockReadings :
        IF reminders[rid].delivered = 0
        THEN mark_reminder_sent(reminders, rid, t) =
                 [reminders EXCEPT ![rid].delivered = 1, ![rid].sent_at = t,
                                   ![rid].acked = 0, ![rid].nudge_sent = 0]
        ELSE mark_reminder_sent(reminders, rid, t) = reminders

\* C16: an exception while the worker processes one item leaves the reminders
\* table as it was, and the worker goes on with the next item of the cycle, or
\* to its sleep when there is none.
FailedItemLeavesRowUnchanged ==
    [][(WorkerSendFail \/ WorkerMarkFail \/ WorkerPostFail) =>
          /\ reminders' = reminders
          /\ wdue' = Tail(wdue)
          /\ wpc' = IF Tail(wdue) = <<>> THEN "sleep" ELSE "send"]_vars

\* C17: get_due_reminders(now) returns exactly the undelivered reminders with
\* remind_at <= now, in ascending order of remind_at; the worker sends the
\* selected reminders in that order and never one whose remind_at is later
\* than the now of its cycle.
WorkerTakesExactlyTheDue ==
    /\ LET due == get_due_reminders(reminders, now)
       IN /\ { due[k].id : k \in 1..Len(due) } =
                { i \in Rids : reminders[i].delivered = 0 /\ reminders[i].remind_at <= now }
          /\ \A k \in 1..(Len(due) - 1) : due[k].remind_at <= due[k + 1].remind_at
          /\ \A k, l \in 1..Len(due) : due[k].id = due[l].id => k = l
    /\ wpc # "sleep" => \A k \in 1..Len(wdue) : wdue[k].remind_at <= wnow

\* C18: when the reminder the worker selected has been deleted, by del_one or
\* del_series, before the worker marks it sent, the rest of the worker's item
\* leaves the reminders table as it is: the deleted row is not re-created and
\* no occurrence is added to the series the delete rescheduled or stopped.
MarkAfterDeleteChangesNothing ==
    [][(WorkerMark /\ Head(wdue).id \notin Rids) => reminders' = reminders]_vars

\* C19: every step that adds a recurring template also adds a pending reminder
\* of that template: the template never exists without its first reminder.
TemplateComesWithFirstReminder ==
    [][\A t \in DOMAIN templates' \ DOMAIN templates :
          \E i \in DOMAIN reminders' \ DOMAIN reminders :
              reminders'[i].template_id = t /\ reminders'[i].delivered = 0]_vars

\* C20: for every /remind message of up to MaxBulkLines lines, a line the
\* parsers reject inserts nothing, every accepted line inserts its reminder
\* (and its template when recurring), the rows already stored are untouched,
\* and created + failed is the number of lines.
RejectedLineInsertsNothing ==
    \A chat \in CreateChats, user \in Users, lines \in BulkInputs :
        LET res == RemindLines(BulkStart(reminders, templates, next_rid, next_tid),
                               chat, user, lines, now)
            accepted == { k \in 1..Len(lines) : ParseLine(lines[k], now).kind # "error" }
            recurring == { k \in accepted : ParseLine(lines[k], now).kind = "recurring" }
        IN /\ res.created + res.failed = Len(lines)
           /\ res.created = Cardinality(accepted)
           /\ Cardinality(DOMAIN res.reminders \ Rids) = Cardinality(accepted)
           /\ Cardinality(DOMAIN res.templates \ Tids) = Cardinality(recurring)
           /\ \A i \in Rids : i \in DOMAIN res.reminders /\ res.reminders[i] = reminders[i]
           /\ \A i \in Tids : i \in DOMAIN res.templates /\ res.templates[i] = templates[i]
           /\ \A i \in DOMAIN res.reminders \ Rids :
                 /\ res.reminders[i].delivered = 0
                 /\ res.reminders[i].template_id # NULL =>
                       res.reminders[i].template_id \in DOMAIN res.templates \ Tids

\* C20 witness: a bulk /remind has replied with one line created and one line
\* failed, and the store holds the reminder of the accepted line
BulkWithRejectedLine ==
    /\ bulk_reply.created = 1
    /\ bulk_reply.failed = 1
    /\ Rids # {}

(***************************************************************************)
(* compute_next_occurrence                                                 *)
(***************************************************************************)
\* the call of compute_next_occurrence has returned a datetime
Returned == call.fn = "compute_next_occurrence" /\ result.done /\ result.value # NoDate

\* date.day of a reading
DayOfMonth(t) == DayOf(t) - DaysBeforeYear(YearOf(t)) - DaysBeforeMonth(YearOf(t), MonthOf(t)) + 1

\* the date of a reading is one the pattern names
OnPattern(pattern_type, payload, reading) ==
    CASE pattern_type = "weekly" -> Weekday(reading) = payload.weekday
      [] pattern_type = "weekly_multi" -> Weekday(reading) \in payload.days
      [] pattern_type = "monthly" -> DayOfMonth(reading) = payload.day
      [] pattern_type = "yearly" ->
            MonthOf(reading) = payload.month /\ DayOfMonth(reading) = payload.day
      [] OTHER -> TRUE

\* C21: whenever compute_next_occurrence returns an instant, the instant is
\* strictly greater than after_dt, its hour and minute are the given time of
\* day and its date satisfies the pattern (the weekday, one of the days, the
\* day of the month, the month and day of the payload)
OccurrenceIsAfterAndOnPattern ==
    Returned =>
        /\ Instant(result.value) > call.after_dt
        /\ MinuteOfDay(result.value.reading) = call.time_hour * 60 + call.time_minute
        /\ OnPattern(call.pattern_type, call.payload, result.value.reading)

\* day d at hh:mm of the k-th month counted from the month of the reading t
\* (NoDate when that month has no day d)
DayOfLaterMonth(t, k, d, hh, mm) ==
    LET months == YearOf(t) * 12 + (MonthOf(t) - 1) + k
        y == months \div 12
        m == (months % 12) + 1
    IN IF ValidDate(y, m, d) THEN DateTime(MkInstant(y, m, d, hh, mm), 0) ELSE NoDate

\* C22: for the pattern monthly with payload day d, compute_next_occurrence
\* returns the earliest instant strictly after after_dt that is day d, at the
\* given time, of a month that has a day d, looking at most 24 months ahead;
\* a month without day d is skipped, never replaced by its last day
MonthlyIsEarliestOnDay ==
    (call.fn = "compute_next_occurrence" /\ call.pattern_type = "monthly" /\ result.done) =>
        LET later == { DayOfLaterMonth(WallClock(call.after_dt), k, call.payload.day,
                                       call.time_hour, call.time_minute) : k \in 0..24 }
            after == { c \in later \ {NoDate} : Instant(c) > call.after_dt }
        IN IF result.value = NoDate
           THEN \A k \in 0..23 :
                   DayOfLaterMonth(WallClock(call.after_dt) + 1, k, call.payload.day,
                                   call.time_hour, call.time_minute) \notin after
           ELSE /\ result.value \in after
                /\ \A c \in after : Instant(result.value) <= Instant(c)
                /\ DayOfMonth(result.value.reading) = call.payload.day

\* a monthly call for day 31 whose after_dt lies in January
FromJanuary ==
    /\ call.fn = "compute_next_occurrence" /\ call.pattern_type = "monthly"
    /\ call.payload.day = 31 /\ MonthOf(WallClock(call.after_dt)) = 1
    /\ result.done

\* day d of month m, at the time of day of the call, in the year of after_dt
SameYear(m, d) ==
    DateTime(MkInstant(YearOf(WallClock(call.after_dt)), m, d,
                       call.time_hour, call.time_minute), 0)

\* C23 as stated: for monthly with day 31 and after_dt on January 15,
\* compute_next_occurrence skips February and returns March 31 of that year
Day31FromJanuary15IsMarch31 ==
    (FromJanuary /\ DayOfMonth(WallClock(call.after_dt)) = 15) =>
        result.value = SameYear(3, 31)

\* C23 as amended: for monthly with day 31 and after_dt on January 15 the
\* result is January 31 of that year; from January 31 at or past the time of
\* day, February is skipped and the result is March 31 of that year
Day31FromJanuary15IsJanuary31 ==
    /\ (FromJanuary /\ DayOfMonth(WallClock(call.after_dt)) = 15) =>
            result.value = SameYear(1, 31)
    /\ (FromJanuary /\ SameYear(1, 31).reading <= WallClock(call.after_dt)) =>
            result.value = SameYear(3, 31)

\* the call from January 15, 10:00 for 10:00 has returned January 31, 10:00
January15GivesJanuary31 ==
    /\ FromJanuary
    /\ call.after_dt = MkInstant(2025, 1, 15, 10, 0) /\ call.time_hour = 10
    /\ result.value = DateTime(MkInstant(2025, 1, 31, 10, 0), 0)

\* C24: for the pattern daily, compute_next_occurrence returns the date of
\* after_dt at the given time if that instant is strictly after after_dt and
\* otherwise the same time one day later (also when after_dt is exactly at
\* that time); the result is never more than 24 hours after after_dt
DailyIsWithin24Hours ==
    (call.fn = "compute_next_occurrence" /\ call.pattern_type = "daily" /\ result.done) =>
        LET today == DateTime(AtTime(WallClock(call.after_dt), call.time_hour,
                                     call.time_minute), Fold(call.after_dt))
        IN /\ result.value # NoDate
           /\ result.value.reading =
                 IF Instant(today) > call.after_dt THEN today.reading
                 ELSE today.reading + MinutesPerDay
           /\ Instant(result.value) - call.after_dt <= 24 * 60

\* the first date on or after the date of the reading t whose weekday is w, at hh:mm
FirstOnWeekday(t, w, hh, mm) ==
    DateTime(AtTime(t, hh, mm) + ((w - Weekday(t) + 7) % 7) * MinutesPerDay, 0)

\* C25: for the pattern weekly with payload weekday w, compute_next_occurrence
\* returns the first date on or after the date of after_dt whose weekday is w,
\* at the given time; when that is the date of after_dt itself and the time is
\* not strictly after after_dt, it returns the date 7 days later; the result
\* is at most 7 days after after_dt
WeeklyIsWithin7Days ==
    (call.fn = "compute_next_occurrence" /\ call.pattern_type = "weekly" /\ result.done) =>
        LET first == FirstOnWeekday(WallClock(call.after_dt), call.payload.weekday,
                                    call.time_hour, call.time_minute)
            today == Weekday(WallClock(call.after_dt)) = call.payload.weekday
        IN /\ result.value # NoDate
           /\ result.value.reading =
                 IF today /\ Instant(first) <= call.after_dt
                 THEN first.reading + 7 * MinutesPerDay
                 ELSE first.reading
           /\ Instant(result.value) - call.after_dt <= 7 * MinutesPerDay

\* a payload that names at least one date: a weekday 0..6, a non-empty set of
\* weekdays, a day 1..31, a month and day some year has (2024 is a leap year)
NamesADate(pattern_type, payload) ==
    CASE pattern_type = "daily" -> TRUE
      [] pattern_type = "weekly" -> payload.weekday \in 0..6
      [] pattern_type = "weekly_multi" -> payload.days # {} /\ payload.days \subseteq 0..6
      [] pattern_type = "monthly" -> payload.day \in 1..31
      [] pattern_type = "yearly" -> ValidDate(2024, payload.month, payload.day)
      [] OTHER -> FALSE

\* C26: compute_next_occurrence returns None only for a payload that names no
\* date: for daily, a weekday 0..6, a non-empty set of weekdays, a day 1..31 and
\* a month and day that exist in some year (February 29 included) the result
\* is a datetime, whatever after_dt
NoneOnlyForPathologicalPayload ==
    (call.fn = "compute_next_occurrence" /\ result.done
        /\ NamesADate(call.pattern_type, call.payload)) => result.value # NoDate

\* February 29 asked for on 1 March 2096 has returned 29 February 2104
\* (2100 is not a leap year)
Feb29AcrossCentury ==
    /\ call.fn = "compute_next_occurrence" /\ result.done
    /\ call.pattern_type = "yearly" /\ call.payload.month = 2 /\ call.payload.day = 29
    /\ call.after_dt = MkInstant(2096, 3, 1, 10, 0)
    /\ result.value.reading = MkInstant(2104, 2, 29, call.time_hour, call.time_minute)

(***************************************************************************)
(* parse_date_time_smart                                                   *)
(***************************************************************************)
\* the call of parse_date_time_smart has returned or raised
Parsed == call.fn = "parse_date_time_smart" /\ result.done

\* the instant of dt lies more than one minute before now
MoreThanAMinuteBefore(dt, clock) ==
    IF clock.seconds THEN Instant(dt) <= clock.minute - 1 ELSE Instant(dt) < clock.minute - 1

\* the expression is DD.MM or DD.MM HH:MM
IsAbsoluteExpr(expr) ==
    /\ Len(expr) \in {1, 2}
    /\ expr[1].k = "pair" /\ expr[1].sep = "." /\ expr[1].bd \in {1, 2}
    /\ Len(expr) = 2 => expr[2].k = "pair" /\ expr[2].sep = ":" /\ expr[2].bd = 2

\* the date and time an absolute expression writes, in a year
WrittenIn(expr, year) ==
    MakeDateTime(year, expr[1].b, expr[1].a,
                 IF Len(expr) = 2 THEN expr[2].a ELSE 11,
                 IF Len(expr) = 2 THEN expr[2].b ELSE 0)

\* C27: for an expression DD.MM or DD.MM HH:MM (11:00 when no time is
\* written) whose values are in range, parse_date_time_smart returns that
\* day, month and time in the current year, unless that instant lies more
\* than one minute before now: then it returns them one year later.  The
\* input is not rejected and the returned day, month, hour and minute are
\* the written ones.
AbsoluteIsThisYearOrNext ==
    (Parsed /\ IsAbsoluteExpr(call.expr)) =>
        LET year == YearOf(Local(call.now))
            this == WrittenIn(call.expr, year)
            next == WrittenIn(call.expr, year + 1)
            past == MoreThanAMinuteBefore(this.dt, call.now)
        IN (this.kind = "ok" /\ (past => next.kind = "ok")) =>
               result.value = IF past THEN next ELSE this

\* the expression is a time HH:MM alone, with values in range
IsTimeExpr(expr) ==
    /\ Len(expr) = 1
    /\ expr[1].k = "pair" /\ expr[1].sep = ":" /\ expr[1].bd = 2
    /\ expr[1].a \in 0..23 /\ expr[1].b \in 0..59

\* today + days at the written time of day, as local.replace and + timedelta
\* make it
WrittenOn(expr, clock, days) ==
    DateTime(AtTime(Local(clock), expr[1].a, expr[1].b) + days * MinutesPerDay,
             IF days = 0 THEN Fold(clock.minute) ELSE 0)

\* the instant of a datetime of whole minutes is later than now
AheadOf(dt, clock) == Instant(dt) > clock.minute
\* the instant of a datetime of whole minutes is earlier than now
EarlierThan(dt, clock) ==
    IF clock.seconds THEN Instant(dt) <= clock.minute ELSE Instant(dt) < clock.minute

IsBadTime(t) ==
    t.k = "pair" /\ t.sep = ":" /\ t.bd = 2 /\ ~(t.a \in 0..23 /\ t.b \in 0..59)
HasBadTime(expr) == \E i \in 1..Len(expr) : IsBadTime(expr[i])

\* a day and month that exist in no year
NoSuchDate(month, day) == \A y \in EpochYear..(EpochYear + 3) : ~ValidDate(y, month, day)

\* the expression writes a date that exists in no year: DD/MM, DD.MM or DD/MM
\* followed by a time, <month> DD or DD <month>
HasBadDate(expr) ==
    \/ /\ expr[1].k = "pair"
       /\ expr[1].sep = "/" \/ (expr[1].sep = "." /\ Len(expr) = 2 /\ IsTimeToken(expr[2]))
       /\ NoSuchDate(expr[1].b, expr[1].a)
    \/ /\ Len(expr) >= 2
       /\ \/ IsMonth(expr[1]) /\ expr[2].k = "number"
                /\ NoSuchDate(MONTH_EN[expr[1].w], expr[2].a)
          \/ IsMonth(expr[2]) /\ expr[1].k = "number"
                /\ NoSuchDate(MONTH_EN[expr[2].w], expr[1].a)

\* C29: an expression of any form with a day, month, hour or minute out of
\* range makes parse_date_time_smart fail with an error; the value is never
\* replaced by a default or by another valid value.
OutOfRangeIsAnError ==
    (Parsed /\ (HasBadTime(call.expr) \/ HasBadDate(call.expr))) =>
        result.value.kind = "error"

\* the expression is [next|this|coming] <weekday> with no time or a time in
\* range
IsWeekdayExpr(expr) ==
    LET n == Len(expr)
        timed == n >= 2 /\ IsTimeInRange(expr[n])
        m == IF timed THEN n - 1 ELSE n
    IN /\ m \in {1, 2}
       /\ IsWeekday(expr[m])
       /\ m = 2 => expr[1].k = "word" /\ expr[1].w \in NextWords \cup ThisWords

\* the date `days` after today at the time the expression writes, 11:00 when
\* it writes none
WeekdayOn(expr, clock, days) ==
    LET t == _extract_time_from_tokens(expr)
    IN OnDay(clock, days, t.hour, t.minute)

\* C30: "next <weekday>" resolves to the date with that weekday 1 to 7 days
\* after today, never today; "this/coming <weekday>" and a bare weekday
\* resolve to today only when today is that weekday and the instant is still
\* ahead of now, and otherwise to the next date with that weekday, 7 days on
\* when today is that weekday; the weekday of the result is the named one.
WeekdayIsNextOrThis ==
    (Parsed /\ IsWeekdayExpr(call.expr)) =>
        LET n == Len(_extract_time_from_tokens(call.expr).tokens)
            named == WEEKDAY_EN[call.expr[n].w]
            is_next == n = 2 /\ call.expr[1].w \in NextWords
            delta == (named - Weekday(Local(call.now)) + 7) % 7
            today == WeekdayOn(call.expr, call.now, 0)
            days == IF delta = 0 /\ (is_next \/ ~AheadOf(today, call.now)) THEN 7
                    ELSE delta
        IN /\ result.value.kind = "ok"
           /\ result.value.dt.reading = WeekdayOn(call.expr, call.now, days).reading
           /\ Weekday(result.value.dt.reading) = named
           /\ is_next => DayOf(result.value.dt.reading) - DayOf(Local(call.now)) \in 1..7

(***************************************************************************)
(* _split_expr_and_text                                                    *)
(***************************************************************************)
\* the split the line has at its last dash with a space on both sides
SplitAtLastSpacedDash(s) ==
    LET ps == { p \in 2..(Len(s) - 1) : IsDash(s[p]) /\ s[p - 1] = " " /\ s[p + 1] = " " }
    IN IF ps = {} THEN NoSplit
       ELSE LET p == CHOOSE p \in ps : \A q \in ps : q <= p
                expr == Strip(SubSeq(s, 1, p - 1))
                text == Strip(SubSeq(s, p + 1, Len(s)))
            IN IF expr = <<>> \/ text = <<>> THEN NoSplit
               ELSE [kind |-> "ok", expr |-> expr, text |-> text]

\* C31: _split_expr_and_text splits the line at the last dash (hyphen,
\* en-dash, em-dash) that has whitespace on both sides: expr is what stands
\* before it, the text what stands after it, and the split fails when there is
\* no such dash or when either side is empty.
SplitsAtLastSpacedDash ==
    (call.fn = "_split_expr_and_text" /\ result.done) =>
        result.value = SplitAtLastSpacedDash(call.s)

(***************************************************************************)
(* get_active_reminders_created_by_for_chat                                *)
(***************************************************************************)
\* C32: get_active_reminders_created_by_for_chat(chat_id, created_by)
\* returns exactly the reminders of the store with that chat_id, that
\* created_by and delivered = 0, each once, in ascending order of the stored
\* remind_at;
\* no reminder of another user and no delivered reminder is in the result.
ListIsExactlyMine ==
    (call.fn = "get_active_reminders_created_by_for_chat" /\ result.done) =>
        LET rows == result.value
            mine == { i \in Rids : /\ reminders[i].chat_id = call.chat_id
                                   /\ reminders[i].created_by = call.created_by
                                   /\ reminders[i].delivered = 0 }
        IN /\ Len(rows) = Cardinality(mine)
           /\ { rows[k].id : k \in 1..Len(rows) } = mine
           /\ \A k \in 1..Len(rows) :
                 /\ rows[k] = AsRow(reminders[rows[k].id])
                 /\ rows[k].created_by = call.created_by
                 /\ rows[k].chat_id = call.chat_id
                 /\ rows[k].delivered = 0
           /\ \A k, l \in 1..Len(rows) : k < l => IsoTextLeq(rows[k].remind_at, rows[l].remind_at)

\* C32 witness: a list of two reminders, set in the other order, was returned
\* from a chat that also holds a reminder of another user and a delivered one
ListedNextToOthers ==
    /\ call.fn = "get_active_reminders_created_by_for_chat" /\ result.done
    /\ Len(result.value) = 2
    /\ result.value[1].id > result.value[2].id
    /\ \E i, j \in Rids :
          /\ reminders[i].chat_id = call.chat_id /\ reminders[j].chat_id = call.chat_id
          /\ reminders[i].created_by # call.created_by /\ reminders[i].delivered = 0
          /\ reminders[j].created_by = call.created_by /\ reminders[j].delivered = 1

(***************************************************************************)
(* Deleting a series and undoing it                                        *)
(***************************************************************************)
\* C33: after delete_recurring_series_with_snapshot and
\* restore_deleted_snapshot on its snapshot, no reminder of the series that had
\* delivered = 1 before the deletion exists as an undelivered reminder: the
\* restore inserts no undelivered reminder for a snapshot row with
\* delivered = 1, so the undelivered reminders it adds are as many as the
\* snapshot rows with delivered = 0.
DeliveredIsNotRestoredAsPending ==
    [][\A k \in 1..Len(undo_waiting) :
          (/\ UndoRun(k)
           /\ undo_waiting[k] \in DOMAIN undo_tokens
           /\ undo_tokens[undo_waiting[k]].kind = "series") =>
              LET snapshot == undo_tokens[undo_waiting[k]]
                  added == DOMAIN reminders' \ DOMAIN reminders
              IN /\ \A j \in 1..Len(snapshot.reminders) :
                       snapshot.reminders[j].delivered = 1 =>
                          Cardinality({ i \in added :
                                          /\ reminders'[i].delivered = 0
                                          /\ reminders'[i].remind_at =
                                                snapshot.reminders[j].remind_at })
                          <= Cardinality(PendingAt(snapshot.reminders,
                                                   snapshot.reminders[j].remind_at))
                 /\ Cardinality({ i \in added : reminders'[i].delivered = 0 })
                       = Cardinality({ j \in 1..Len(snapshot.reminders) :
                                         snapshot.reminders[j].delivered = 0 })]_vars

(***************************************************************************)
(* Acknowledgement against delivery                                        *)
(***************************************************************************)
\* C34: an acknowledgement is never lost: once mark_reminder_acked(id) has run
\* after the worker's send for id succeeded (acked = 1 on a reminder whose
\* message reached the chat), no later step, the worker's mark_reminder_sent
\* included, sets acked back to 0, and reminders_nudge_worker sends no nudge
\* for a reminder with acked = 1.
AckIsNeverLost ==
    [][/\ \A i \in Rids \cap DOMAIN reminders' :
             (i \in sent /\ reminders[i].acked = 1) => reminders'[i].acked = 1
       /\ NudgeSendOk =>
             (Head(nrows).id \in Rids => reminders[Head(nrows).id].acked = 0)]_vars

(***************************************************************************)
(* One pending occurrence per active series                                *)
(***************************************************************************)
\* C35: whenever no operation is in flight (the worker is between two cycles
\* and no undo_callback is suspended), every template with active = 1 whose
\* pattern names a date has exactly one undelivered reminder.
ActiveSeriesHasExactlyOnePending ==
    (wpc = "sleep" /\ undo_waiting = <<>>) =>
        \A t \in Tids :
            (templates[t].active = 1
                /\ NamesADate(templates[t].pattern_type, templates[t].payload)) =>
                    Cardinality(PendingOf(reminders, t)) = 1

(***************************************************************************)
(* undo_callback reporting a failure                                       *)
(***************************************************************************)
\* C36: whenever undo_callback reports a failure ("Undo уже недоступен": no
\* snapshot for the token; "Не смог восстановить": restore_deleted_snapshot
\* returned None or an empty list), the reminders and recurring_templates
\* tables are exactly as they were before the callback.
FailedUndoChangesNothing ==
    [][\A k \in 1..Len(undo_waiting) :
          (/\ UndoRun(k)
           /\ \/ undo_waiting[k] \notin DOMAIN undo_tokens
              \/ restore_deleted_snapshot(undo_tokens[undo_waiting[k]], reminders,
                                          templates, next_rid).result \in {NULL, 0}) =>
              /\ reminders' = reminders
              /\ templates' = templates]_vars

(***************************************************************************)
(* Delete operations that find nothing to delete                           *)
(***************************************************************************)
\* no reminder with this id in this chat
NoReminderIn(rid, chat) == rid \notin Rids \/ reminders[rid].chat_id # chat

\* no template with this id in this chat
NoTemplateIn(tid, chat) == tid \notin Tids \/ templates[tid].chat_id # chat

\* the call returned None (no snapshot was registered) and changed no table
NothingDeleted == UNCHANGED <<reminders, templates, next_rid, undoVars>>

\* C37: a delete operation called with an id that does not exist (any more) or
\* with a chat_id other than the chat of the targeted reminder or template
\* returns None or 0 and leaves every reminder and every template, active
\* flags included, unchanged: delete_single_reminder_with_snapshot,
\* delete_recurring_one_instance_and_reschedule, delete_reminders,
\* delete_recurring_series_with_snapshot and delete_recurring_series.
MissedDeleteChangesNothing ==
    [][/\ \A rid \in 1..MaxRid, chat \in Chats :
             NoReminderIn(rid, chat) =>
                /\ DeleteWithSnapshot(rid, chat) => NothingDeleted
                /\ DeleteOne(rid, chat) => NothingDeleted
       /\ \A ids \in SUBSET (1..MaxRid), chat \in Chats :
             (\A rid \in ids : NoReminderIn(rid, chat)) =>
                /\ delete_reminders(reminders, templates, ids, chat).result = 0
                /\ DeleteReminders(ids, chat) => NothingDeleted
       /\ \A tid \in 1..MaxTid, chat \in Chats :
             NoTemplateIn(tid, chat) =>
                /\ DeleteSeries(tid, chat) => NothingDeleted
                /\ delete_recurring_series(reminders, templates, tid, chat).result = 0
                /\ DeleteRecurringSeries(tid, chat) => NothingDeleted]_vars

(***************************************************************************)
(* The occurrences of a series                                             *)
(***************************************************************************)
\* C38: the occurrence reminders_worker inserts when it delivers reminder r has
\* remind_at strictly greater than r.remind_at, and the occurrences of a series,
\* in the order they were materialized, have strictly increasing remind_at.
OccurrencesStrictlyIncrease ==
    /\ [][WorkerMark =>
            \A i \in DOMAIN reminders' \ DOMAIN reminders :
                reminders'[i].remind_at > Head(wdue).remind_at]_vars
    /\ [](\A i, j \in Rids :
             (i < j /\ reminders[i].template_id # NULL
                    /\ reminders[i].template_id = reminders[j].template_id) =>
                 reminders[i].remind_at < reminders[j].remind_at)

\* C38 witness: a series whose occurrence of the repeated hour (02:30 before the
\* clocks went back on 26 October 2025) has been delivered and followed by two
\* further occurrences
SeriesRanAcrossRepeatedHour ==
    \E i \in Rids :
        /\ reminders[i].template_id # NULL
        /\ reminders[i].remind_at = FirstPass(2, 30)
        /\ reminders[i].delivered = 1
        /\ i + 2 \in Rids
        /\ reminders[i + 2].template_id = reminders[i].template_id

(***************************************************************************)
(* snooze_callback                                                         *)
(***************************************************************************)
\* what a completed snooze of reminder rid does to the tables
Snoozed(rid) ==
    LET added == DOMAIN reminders' \ Rids
    IN /\ Cardinality(added) = 1
       /\ \A i \in added :
             /\ reminders'[i].delivered = 0
             /\ reminders'[i].chat_id = reminders[rid].chat_id
             /\ reminders'[i].text = reminders[rid].text
             /\ reminders'[i].created_by = reminders[rid].created_by
             /\ reminders'[i].template_id = NULL
       /\ reminders'[rid] = [reminders[rid] EXCEPT !.acked = 1]
       /\ \A j \in Rids \ {rid} : reminders'[j] = reminders[j]
       /\ templates' = templates

\* the stored reading is 11:00 of a Monday 1..7 days after the clock's date
IsNextMonday(remind_at, clock) ==
    /\ Weekday(WallClock(remind_at)) = 0
    /\ MinuteOfDay(WallClock(remind_at)) = 11 * 60
    /\ DayOf(WallClock(remind_at)) - DayOf(WallClock(clock)) \in 1..7

\* C39: a completed snooze (20m, 1h, 3h, tomorrow, nextmon, picktime) of an
\* existing reminder r inserts exactly one undelivered reminder with r's
\* chat_id, text and created_by and template_id NULL, sets r.acked = 1 and
\* changes nothing else; a snooze of an id that does not exist changes nothing;
\* "nextmon" is 11:00 of a Monday strictly after today and at most 7 days ahead.
SnoozeInsertsOneCopy ==
    [][/\ \A rid \in 1..MaxRid, action \in SnoozeButtons :
             SnoozeCallback(rid, action) =>
                IF rid \in Rids
                THEN /\ Snoozed(rid)
                     /\ action = "nextmon" =>
                           \A i \in DOMAIN reminders' \ Rids :
                               IsNextMonday(reminders'[i].remind_at, now)
                ELSE reminders' = reminders /\ templates' = templates
       /\ \A rid \in 1..MaxRid, days \in PickDays, hour \in PickHours :
             SnoozePickTime(rid, days, hour) =>
                IF rid \in Rids
                THEN Snoozed(rid)
                ELSE reminders' = reminders /\ templates' = templates]_vars

\* C39 witness: an occurrence of a series, delivered on a Monday, has been
\* snoozed to 11:00 of the Monday a week later; the copy is undelivered and
\* belongs to no series
SnoozedOnMondayToNextMonday ==
    \E i, j \in Rids :
        /\ i < j
        /\ i \in sent
        /\ reminders[i].template_id # NULL
        /\ reminders[i].acked = 1
        /\ Weekday(WallClock(reminders[i].sent_at)) = 0
        /\ reminders[j].template_id = NULL
        /\ reminders[j].delivered = 0
        /\ reminders[j].remind_at =
              FromWallClock(AtTime(WallClock(reminders[i].sent_at), 11, 0)
                               + 7 * MinutesPerDay)

(***************************************************************************)
(* parse_date_time_smart: no result is overdue                             *)
(***************************************************************************)
\* C40: for every input parse_date_time_smart accepts, whichever parser
\* matches, the returned due_at is not earlier than now minus one minute.
ParsedIsNotOverdue ==
    (Parsed /\ result.value.kind = "ok") =>
        ~MoreThanAMinuteBefore(result.value.dt, call.now)

TypeOK ==
    /\ now \in ClockReadings \cup FoldClock
    /\ wpc \in {"sleep", "send", "mark"}
    /\ npc \in {"sleep", "send", "mark"}
    /\ \A i \in Rids : reminders[i].id = i /\ i < next_rid
    /\ \A i \in Tids : templates[i].id = i /\ i < next_tid
    /\ next_rid <= MaxRid + 1
    /\ next_token <= MaxToken + 1

====
